---- MODULE Spec2Model ----
(***************************************************************************)
(* State-machine model of the brick-breaker game: Game (match controller), *)
(* Paddle, Ball, Brick / BrickManager.                                     *)
(*                                                                         *)
(* Lengths are whole pixels and velocities whole pixels per frame.  The    *)
(* floating point trigonometry of Ball.launch and                          *)
(* Ball.checkPaddleCollision is computed in fixed point (FP = 1/1000) and  *)
(* the resulting velocity components are rounded to the nearest pixel.     *)
(***************************************************************************)
EXTENDS Integers, Sequences, FiniteSets, TLC

VARIABLES
    config,             \* Game.config (GameConfig), fixed at construction
    state,              \* Game.state
    previousState,      \* Game.previousState
    score,              \* Game.score
    lives,              \* Game.lives
    stage,              \* Game.stage
    combo,              \* Game.combo
    paddle,             \* Paddle: [x, direction]
    ball,               \* Ball: [x, y, dx, dy, launched]
    bricks,             \* BrickManager.bricks: sequence of Brick records
    keys,               \* Game.keys: the codes whose entry is true
    animationFrameId,   \* Game.animationFrameId (NULL or a frame id)
    frames,             \* frame callbacks requested and neither run nor cancelled
    fetches,            \* loadHighScores() calls awaiting their response
    highScores,         \* Game.highScores: the cached leaderboard
    onGameOver,         \* Game.onGameOver is set (setOnGameOver was called)
    submits,            \* scores handed to onGameOver: waiting for the name, or posted
    storage,            \* server: data.scores of the score file (<<>>: no file)
    adds,               \* server: the addScore calls made so far, in order
    velocity,           \* ball: its velocity at the full resolution of the arithmetic
    torn,               \* server: the score file was left cut short by a failed write
    inflight            \* server: the addScore calls that have begun and not returned

vars == <<config, state, previousState, score, lives, stage, combo, paddle,
          ball, bricks, keys, animationFrameId, frames, fetches, highScores,
          onGameOver, submits, storage, adds, velocity, torn, inflight>>

\* null, as the value of animationFrameId (frame ids start at 1)
NULL == 0

(***************************************************************************)
(* Arithmetic helpers (Math.min, Math.max, Math.abs, Math.floor, rounding) *)
(***************************************************************************)
Min(a, b) == IF a <= b THEN a ELSE b

Max(a, b) == IF a >= b THEN a ELSE b

Abs(a) == IF a < 0 THEN -a ELSE a

Sgn(a) == IF a < 0 THEN -1 ELSE IF a > 0 THEN 1 ELSE 0

\* p / q rounded to the nearest integer (q > 0), half away from zero
Round(p, q) == Sgn(p) * ((2 * Abs(p) + q) \div (2 * q))

FP == 1000

PI == 3142

RECURSIVE SqrtSearch(_, _, _)
SqrtSearch(n, lo, hi) ==
    IF lo >= hi THEN lo
    ELSE LET mid == (lo + hi + 1) \div 2
         IN  IF mid * mid <= n THEN SqrtSearch(n, mid, hi)
             ELSE SqrtSearch(n, lo, mid - 1)

\* Math.sqrt on a fixed point argument: floor(sqrt(n))
Sqrt(n) == SqrtSearch(n, 0, 46340)

\* x^n / n! from x^(n-2) / (n-2)!, all in fixed point
NextTerm(t, x, n) == ((((t * x) \div FP) * x) \div FP) \div ((n - 1) * n)

\* Math.sin of an angle in milliradians, in fixed point
Sin(a) ==
    LET x  == Abs(a)
        t1 == x
        t3 == NextTerm(t1, x, 3)
        t5 == NextTerm(t3, x, 5)
        t7 == NextTerm(t5, x, 7)
        t9 == NextTerm(t7, x, 9)
        t11 == NextTerm(t9, x, 11)
    IN  Sgn(a) * (t1 - t3 + t5 - t7 + t9 - t11)

\* Math.cos of an angle in milliradians, in fixed point
Cos(a) ==
    LET x  == Abs(a)
        t0 == FP
        t2 == NextTerm(t0, x, 2)
        t4 == NextTerm(t2, x, 4)
        t6 == NextTerm(t4, x, 6)
        t8 == NextTerm(t6, x, 8)
        t10 == NextTerm(t8, x, 10)
    IN  t0 - t2 + t4 - t6 + t8 - t10

(***************************************************************************)
(* Configuration (GameConfig).  The game takes its configuration as a      *)
(* constructor argument; the model runs it on a small court.               *)
(***************************************************************************)
SmallConfig ==
    [ canvas |-> [width |-> 6, height |-> 62],
      paddle |-> [width |-> 2, height |-> 8, speed |-> 2],
      ball   |-> [radius |-> 1, initialSpeed |-> 7, maxSpeed |-> 8],
      brick  |-> [width |-> 2, height |-> 2, rows |-> 1, cols |-> 1,
                  gap |-> 0, topOffset |-> 2],
      lives  |-> 2 ]

\* BRICK_CONFIGS: durability and score of each brick type
\* a wide court for the paddle alone
WideConfig ==
    [ canvas |-> [width |-> 40, height |-> 62],
      paddle |-> [width |-> 10, height |-> 8, speed |-> 3],
      ball   |-> [radius |-> 1, initialSpeed |-> 7, maxSpeed |-> 8],
      brick  |-> [width |-> 2, height |-> 2, rows |-> 1, cols |-> 1,
                  gap |-> 0, topOffset |-> 2],
      lives  |-> 2 ]

\* a grid of three rows and two columns, for the bricks alone
GridConfig ==
    [ canvas |-> [width |-> 6, height |-> 62],
      paddle |-> [width |-> 2, height |-> 8, speed |-> 2],
      ball   |-> [radius |-> 1, initialSpeed |-> 3, maxSpeed |-> 4],
      brick  |-> [width |-> 2, height |-> 2, rows |-> 3, cols |-> 2,
                  gap |-> 0, topOffset |-> 2],
      lives  |-> 2 ]

\* a court for a ball of radius 2: the bricks keep one ball's width from the
\* side walls, as those of DEFAULT_CONFIG do (16 = 2 x 8)
RoundConfig ==
    [ canvas |-> [width |-> 16, height |-> 70],
      paddle |-> [width |-> 4, height |-> 8, speed |-> 2],
      ball   |-> [radius |-> 2, initialSpeed |-> 3, maxSpeed |-> 4],
      brick  |-> [width |-> 4, height |-> 2, rows |-> 2, cols |-> 2,
                  gap |-> 0, topOffset |-> 6],
      lives  |-> 2 ]

\* DEFAULT_CONFIG
DefaultConfig ==
    [ canvas |-> [width |-> 800, height |-> 600],
      paddle |-> [width |-> 100, height |-> 15, speed |-> 8],
      ball   |-> [radius |-> 8, initialSpeed |-> 5, maxSpeed |-> 10],
      brick  |-> [width |-> 75, height |-> 20, rows |-> 5, cols |-> 10,
                  gap |-> 2, topOffset |-> 50],
      lives  |-> 3 ]

\* a court one brick wide and ten bricks deep
FieldConfig ==
    [ canvas |-> [width |-> 6, height |-> 80],
      paddle |-> [width |-> 2, height |-> 8, speed |-> 2],
      ball   |-> [radius |-> 1, initialSpeed |-> 3, maxSpeed |-> 4],
      brick  |-> [width |-> 6, height |-> 2, rows |-> 10, cols |-> 1,
                  gap |-> 0, topOffset |-> 2],
      lives  |-> 2 ]

BRICK_CONFIGS ==
    [ normal  |-> [durability |-> 1, score |-> 10],
      hard    |-> [durability |-> 2, score |-> 25],
      special |-> [durability |-> 1, score |-> 50] ]

GameStates == {"idle", "playing", "paused", "gameover", "clear", "scores"}

(***************************************************************************)
(* Paddle                                                                  *)
(***************************************************************************)
PaddleBottomOffset == 50

PaddleGetY == config.canvas.height - PaddleBottomOffset

\* Paddle constructor / Paddle.reset
PaddleReset ==
    [ x |-> (config.canvas.width - config.paddle.width) \div 2,
      direction |-> 0 ]

PaddleSetDirection(p, dir) == [p EXCEPT !.direction = dir]

PaddleSetPositionX(p, mouseX) ==
    LET newX == mouseX - config.paddle.width \div 2
    IN  [p EXCEPT !.x = Max(0, Min(newX, config.canvas.width - config.paddle.width))]

\* variant: the paddle moves without the clamp at the right wall
PaddleUpdateNoRightClamp(p) ==
    IF p.direction = 0 THEN p
    ELSE LET newX == p.x + p.direction * config.paddle.speed
         IN  [p EXCEPT !.x = Max(0, newX)]

PaddleUpdate(p) ==
    IF p.direction = 0 THEN p
    ELSE LET newX == p.x + p.direction * config.paddle.speed
         IN  [p EXCEPT !.x = Max(0, Min(newX, config.canvas.width - config.paddle.width))]

\* variant: the paddle's left edge is taken for its centre
PaddleGetCenterXLeftEdge(p) == p.x

PaddleGetCenterX(p) == p.x + config.paddle.width \div 2

(***************************************************************************)
(* Ball                                                                    *)
(***************************************************************************)
\* Ball constructor
BallNew == [x |-> 0, y |-> 0, dx |-> 0, dy |-> 0, launched |-> FALSE]

BallReset(p) ==
    [ x |-> PaddleGetCenterX(p),
      y |-> PaddleGetY - config.ball.radius - 1,
      dx |-> 0, dy |-> 0, launched |-> FALSE ]

\* the two Math.random() draws of Ball.launch: the angle in degrees
\* (random * 60 + 60) and the mirror sign (random > 0.5 ? 1 : -1)
LaunchAngles == {60, 90}

LaunchDraws == [angle : LaunchAngles, sign : {1, -1}]

BallLaunch(b, rnd) ==
    IF b.launched THEN b
    ELSE LET angle == Round(rnd.angle * PI, 180)
         IN  [b EXCEPT
                !.dx = Round(config.ball.initialSpeed * Cos(angle) * rnd.sign, FP),
                !.dy = -Round(config.ball.initialSpeed * Sin(angle), FP),
                !.launched = TRUE]

\* the speed of a velocity: Math.sqrt(dx * dx + dy * dy)
SpeedOf(v) == Sqrt(v.dx * v.dx + v.dy * v.dy)

\* variant: the paddle accelerates the ball without the cap
NewSpeedNoCap(speed) == Round(speed * 102, 100)

\* Ball.checkPaddleCollision: newSpeed
NewSpeed(speed) == Min(Round(speed * 102, 100), config.ball.maxSpeed * FP)

\* variant: the paddle sends the ball out within 45 degrees of straight up
BounceAngleNarrow(hitPosition) ==
    Round((hitPosition - FP \div 2) * PI * 5, 10 * FP)

\* Ball.checkPaddleCollision: angle, (hitPosition - 0.5) * Math.PI * 0.7
BounceAngle(hitPosition) ==
    Round((hitPosition - FP \div 2) * PI * 7, 10 * FP)

BallCheckPaddleCollision(b, p) ==
    LET paddleX == p.x
        paddleY == PaddleGetY
        paddleWidth == config.paddle.width
        paddleHeight == config.paddle.height
        radius == config.ball.radius
    IN  IF /\ b.dy > 0
           /\ b.y + radius >= paddleY
           /\ b.y + radius <= paddleY + paddleHeight
           /\ b.x >= paddleX
           /\ b.x <= paddleX + paddleWidth
        THEN LET hitPosition == Round((b.x - paddleX) * FP, paddleWidth)
                 angle == BounceAngle(hitPosition)
                 speed == SpeedOf([dx |-> b.dx * FP, dy |-> b.dy * FP])
                 newSpeed == NewSpeed(speed)
             IN  [b EXCEPT
                    !.dx = Round(newSpeed * Sin(angle), FP * FP),
                    !.dy = -Round(newSpeed * Cos(angle), FP * FP),
                    !.y = paddleY - radius]
        ELSE b

\* variant: at the top wall the ball turns round where it is
BallUpdateNoTopClamp(b, p) ==
    IF ~b.launched
    THEN [ball |-> [b EXCEPT !.x = PaddleGetCenterX(p),
                             !.y = PaddleGetY - config.ball.radius - 1],
          result |-> "playing"]
    ELSE LET radius == config.ball.radius
             b1 == [b EXCEPT !.x = b.x + b.dx, !.y = b.y + b.dy]
             b2 == IF b1.x - radius <= 0
                   THEN [b1 EXCEPT !.x = radius, !.dx = Abs(b1.dx)]
                   ELSE IF b1.x + radius >= config.canvas.width
                   THEN [b1 EXCEPT !.x = config.canvas.width - radius,
                                   !.dx = -Abs(b1.dx)]
                   ELSE b1
             b3 == IF b2.y - radius <= 0
                   THEN [b2 EXCEPT !.dy = Abs(b2.dy)]
                   ELSE b2
         IN  IF b3.y - radius > config.canvas.height
             THEN [ball |-> b3, result |-> "lost"]
             ELSE [ball |-> BallCheckPaddleCollision(b3, p), result |-> "playing"]

\* variant: the ball is lost as soon as its bottom edge is past the canvas
BallUpdateLostAtBottomEdge(b, p) ==
    IF ~b.launched
    THEN [ball |-> [b EXCEPT !.x = PaddleGetCenterX(p),
                             !.y = PaddleGetY - config.ball.radius - 1],
          result |-> "playing"]
    ELSE LET radius == config.ball.radius
             b1 == [b EXCEPT !.x = b.x + b.dx, !.y = b.y + b.dy]
             b2 == IF b1.x - radius <= 0
                   THEN [b1 EXCEPT !.x = radius, !.dx = Abs(b1.dx)]
                   ELSE IF b1.x + radius >= config.canvas.width
                   THEN [b1 EXCEPT !.x = config.canvas.width - radius,
                                   !.dx = -Abs(b1.dx)]
                   ELSE b1
             b3 == IF b2.y - radius <= 0
                   THEN [b2 EXCEPT !.y = radius, !.dy = Abs(b2.dy)]
                   ELSE b2
         IN  IF b3.y + radius > config.canvas.height
             THEN [ball |-> b3, result |-> "lost"]
             ELSE [ball |-> BallCheckPaddleCollision(b3, p), result |-> "playing"]

\* Ball.update: the ball after the frame and the result ('playing' | 'lost')
BallUpdate(b, p) ==
    IF ~b.launched
    THEN [ball |-> [b EXCEPT !.x = PaddleGetCenterX(p),
                             !.y = PaddleGetY - config.ball.radius - 1],
          result |-> "playing"]
    ELSE LET radius == config.ball.radius
             b1 == [b EXCEPT !.x = b.x + b.dx, !.y = b.y + b.dy]
             b2 == IF b1.x - radius <= 0
                   THEN [b1 EXCEPT !.x = radius, !.dx = Abs(b1.dx)]
                   ELSE IF b1.x + radius >= config.canvas.width
                   THEN [b1 EXCEPT !.x = config.canvas.width - radius,
                                   !.dx = -Abs(b1.dx)]
                   ELSE b1
             b3 == IF b2.y - radius <= 0
                   THEN [b2 EXCEPT !.y = radius, !.dy = Abs(b2.dy)]
                   ELSE b2
         IN  IF b3.y - radius > config.canvas.height
             THEN [ball |-> b3, result |-> "lost"]
             ELSE [ball |-> BallCheckPaddleCollision(b3, p), result |-> "playing"]

\* variant: a tie between the two overlaps is taken for a hit from the side
BallCheckBrickCollisionTieSideways(b, brickX, brickY, brickWidth, brickHeight) ==
    LET radius == config.ball.radius
        closestX == Max(brickX, Min(b.x, brickX + brickWidth))
        closestY == Max(brickY, Min(b.y, brickY + brickHeight))
        distanceX == b.x - closestX
        distanceY == b.y - closestY
    IN  IF distanceX * distanceX + distanceY * distanceY < radius * radius
        THEN LET overlapX == radius - Abs(distanceX)
                 overlapY == radius - Abs(distanceY)
             IN  IF overlapX <= overlapY
                 THEN [ball |-> [b EXCEPT
                          !.dx = -b.dx,
                          !.x = b.x + (IF distanceX > 0 THEN overlapX ELSE -overlapX)],
                       hit |-> TRUE]
                 ELSE [ball |-> [b EXCEPT
                          !.dy = -b.dy,
                          !.y = b.y + (IF distanceY > 0 THEN overlapY ELSE -overlapY)],
                       hit |-> TRUE]
        ELSE [ball |-> b, hit |-> FALSE]

\* Ball.checkBrickCollision: the ball after the test and whether it hit
BallCheckBrickCollision(b, brickX, brickY, brickWidth, brickHeight) ==
    LET radius == config.ball.radius
        closestX == Max(brickX, Min(b.x, brickX + brickWidth))
        closestY == Max(brickY, Min(b.y, brickY + brickHeight))
        distanceX == b.x - closestX
        distanceY == b.y - closestY
    IN  \* distance < radius, both sides squared
        IF distanceX * distanceX + distanceY * distanceY < radius * radius
        THEN LET overlapX == radius - Abs(distanceX)
                 overlapY == radius - Abs(distanceY)
             IN  IF overlapX < overlapY
                 THEN [ball |-> [b EXCEPT
                          !.dx = -b.dx,
                          !.x = b.x + (IF distanceX > 0 THEN overlapX ELSE -overlapX)],
                       hit |-> TRUE]
                 ELSE [ball |-> [b EXCEPT
                          !.dy = -b.dy,
                          !.y = b.y + (IF distanceY > 0 THEN overlapY ELSE -overlapY)],
                       hit |-> TRUE]
        ELSE [ball |-> b, hit |-> FALSE]

(***************************************************************************)
(* Ball.velocity at the resolution of the arithmetic: dx and dy in         *)
(* thousandths of a pixel per frame, through the statements of Ball that   *)
(* assign the velocity                                                     *)
(***************************************************************************)
\* Ball constructor: velocity and launched
VelocityNew == [dx |-> 0, dy |-> 0, launched |-> FALSE]

\* Ball.reset: velocity and launched
VelocityReset == [dx |-> 0, dy |-> 0, launched |-> FALSE]

\* the angle drawn by Ball.launch, in degrees (random * 60 + 60)
VelocityAngles == {60, 75, 90, 105, 119}

VelocityDraws == [angle : VelocityAngles, sign : {1, -1}]

\* Ball.launch
VelocityLaunch(v, rnd) ==
    IF v.launched THEN v
    ELSE LET angle == Round(rnd.angle * PI, 180)
         IN  [ dx |-> config.ball.initialSpeed * Cos(angle) * rnd.sign,
               dy |-> -(config.ball.initialSpeed * Sin(angle)),
               launched |-> TRUE ]

\* Ball.update: the three walls
VelocityLeftWall(v) == [v EXCEPT !.dx = Abs(v.dx)]

VelocityRightWall(v) == [v EXCEPT !.dx = -Abs(v.dx)]

VelocityTopWall(v) == [v EXCEPT !.dy = Abs(v.dy)]

\* Ball.checkBrickCollision: a hit from the side or from above or below
VelocityBrick(v, sideways) ==
    IF sideways THEN [v EXCEPT !.dx = -v.dx] ELSE [v EXCEPT !.dy = -v.dy]

\* (position.x - paddleX) / paddleWidth of a ball over the paddle
HitPositions == {0, 125, 250, 375, 500, 625, 750, 875, 1000}

\* Ball.checkPaddleCollision, for a ball within the paddle's area
VelocityPaddle(v, hitPosition) ==
    IF v.dy > 0
    THEN LET angle == BounceAngle(hitPosition)
             speed == SpeedOf(v)
             newSpeed == NewSpeed(speed)
         IN  [v EXCEPT
                !.dx = Round(newSpeed * Sin(angle), FP),
                !.dy = -Round(newSpeed * Cos(angle), FP)]
    ELSE v

(***************************************************************************)
(* Brick and BrickManager                                                  *)
(***************************************************************************)
\* Brick constructor
BrickNew(x, y, type) ==
    [ x |-> x, y |-> y, type |-> type,
      durability |-> BRICK_CONFIGS[type].durability, destroyed |-> FALSE ]

\* variant: a brick stands until its durability is below 0
BrickHitOneTooMany(brick) ==
    LET d == brick.durability - 1
    IN  IF d < 0
        THEN [brick |-> [brick EXCEPT !.durability = d, !.destroyed = TRUE],
              destroyed |-> TRUE]
        ELSE [brick |-> [brick EXCEPT !.durability = d], destroyed |-> FALSE]

\* Brick.hit: the brick after the hit and the value returned
BrickHit(brick) ==
    LET d == brick.durability - 1
    IN  IF d <= 0
        THEN [brick |-> [brick EXCEPT !.durability = d, !.destroyed = TRUE],
              destroyed |-> TRUE]
        ELSE [brick |-> [brick EXCEPT !.durability = d], destroyed |-> FALSE]

BrickGetScore(brick) == BRICK_CONFIGS[brick.type].score

\* variant: the type is chosen by the column
GetBrickTypeByColumn(stg, row, col) ==
    IF stg = 1 THEN "normal"
    ELSE IF stg = 2 THEN (IF col < 2 THEN "hard" ELSE "normal")
    ELSE IF col = 0 THEN "special"
    ELSE IF col < 2 THEN "hard"
    ELSE "normal"

GetBrickType(stg, row, col) ==
    IF stg = 1 THEN "normal"
    ELSE IF stg = 2 THEN (IF row < 2 THEN "hard" ELSE "normal")
    ELSE IF row = 0 THEN "special"
    ELSE IF row < 2 THEN "hard"
    ELSE "normal"

\* BrickManager.createBricks: the grid in generation (row-major) order
CreateBricks(stg) ==
    LET bc == config.brick
        totalWidth == bc.cols * (bc.width + bc.gap) - bc.gap
        startX == (config.canvas.width - totalWidth) \div 2
    IN  [ i \in 1..(bc.rows * bc.cols) |->
            LET row == (i - 1) \div bc.cols
                col == (i - 1) % bc.cols
            IN  BrickNew(startX + col * (bc.width + bc.gap),
                         bc.topOffset + row * (bc.height + bc.gap),
                         GetBrickType(stg, row, col)) ]

\* variant: destroyed bricks stay in the list
ActiveBricksAll(bs) == DOMAIN bs

\* indices of BrickManager.getActiveBricks(), in order
ActiveBricks(bs) == {i \in DOMAIN bs : ~bs[i].destroyed}

GetRemainingCount(bs) == Cardinality(ActiveBricks(bs))

(***************************************************************************)
(* Game.  The handlers are functions of the game object g, a record of the *)
(* fields listed under VARIABLES (config apart) and of two more that       *)
(* describe the handler that is running and are not kept between events:   *)
(*   changes  the values assigned to this.state, in order                  *)
(*   calls    the methods entered, in order                                *)
(***************************************************************************)
Self ==
    [ state |-> state, previousState |-> previousState, score |-> score,
      lives |-> lives, stage |-> stage, combo |-> combo, paddle |-> paddle,
      ball |-> ball, bricks |-> bricks, keys |-> keys,
      animationFrameId |-> animationFrameId, frames |-> frames,
      fetches |-> fetches, highScores |-> highScores,
      onGameOver |-> onGameOver, submits |-> submits,
      changes |-> <<>>, calls |-> <<>> ]

\* the game object becomes g
Becomes(g) ==
    /\ state' = g.state
    /\ previousState' = g.previousState
    /\ score' = g.score
    /\ lives' = g.lives
    /\ stage' = g.stage
    /\ combo' = g.combo
    /\ paddle' = g.paddle
    /\ ball' = g.ball
    /\ bricks' = g.bricks
    /\ keys' = g.keys
    /\ animationFrameId' = g.animationFrameId
    /\ frames' = g.frames
    /\ fetches' = g.fetches
    /\ highScores' = g.highScores
    /\ onGameOver' = g.onGameOver
    /\ submits' = g.submits
    /\ UNCHANGED config

\* the final stage (handleStageClear: this.stage >= 3)
MaxStage == 3

\* this.state = s
SetState(g, s) == [g EXCEPT !.state = s, !.changes = Append(@, s)]

\* the handler enters the method called name
Call(g, name) == [g EXCEPT !.calls = Append(@, name)]

\* StorageService.getScores: the stored list
GetScores == storage

\* scores.sort((a, b) => b.score - a.score): a stable sort, highest first
RECURSIVE SortScores(_)
SortScores(scores) ==
    IF scores = <<>> THEN <<>>
    ELSE LET last   == scores[Len(scores)]
             sorted == SortScores(SubSeq(scores, 1, Len(scores) - 1))
             before == Cardinality({k \in DOMAIN sorted : sorted[k].score >= last.score})
         IN  SubSeq(sorted, 1, before) \o <<last>>
             \o SubSeq(sorted, before + 1, Len(sorted))

\* the entries kept in the score file
TopCount == 10

\* new Date().toISOString() in the addScore call after those in log: the
\* clock is read as the number of the call
Now(log) == Len(log) + 1

\* the newEntry of addScore
NewEntry(name, scr, date) == [name |-> name, score |-> scr, date |-> date]

\* variant: the list is cut without being sorted
AddScoreUnsorted(scores, name, scr, date) ==
    LET all == Append(scores, NewEntry(name, scr, date))
    IN  SubSeq(all, 1, Min(Len(all), TopCount))

\* StorageService.addScore: the stored list after the call
AddScore(scores, name, scr, date) ==
    LET sorted == SortScores(Append(scores, NewEntry(name, scr, date)))
    IN  SubSeq(sorted, 1, Min(Len(sorted), TopCount))

\* JavaScript values of the properties of a request body: undefined, a
\* string, a number
Undefined == [kind |-> "undefined", str |-> <<>>, num |-> 0]

Str(s) == [kind |-> "string", str |-> s, num |-> 0]

Num(n) == [kind |-> "number", str |-> <<>>, num |-> n]

\* !v
Falsy(v) ==
    \/ v.kind = "undefined"
    \/ v.kind = "string" /\ v.str = <<>>
    \/ v.kind = "number" /\ v.num = 0

\* the score file: the list it holds, or a text cut short that holds none
File == [scores |-> storage, torn |-> torn]

\* how writeFile(scoresFile, text) can end: the whole text written; failed
\* with the file as it was (it could not be opened); failed with the file
\* opened for writing, which empties it, and the text not written to its end
WriteOutcomes == {"written", "refused", "cut"}

\* variant: a write never fails half-way
WriteFileWhole(file, scores, outcome) ==
    IF outcome = "written"
    THEN [threw |-> FALSE, file |-> [scores |-> scores, torn |-> FALSE]]
    ELSE [threw |-> TRUE, file |-> file]

\* writeFile of the list scores over the score file
WriteFile(file, scores, outcome) ==
    IF outcome = "written"
    THEN [threw |-> FALSE, file |-> [scores |-> scores, torn |-> FALSE]]
    ELSE IF outcome = "refused"
    THEN [threw |-> TRUE, file |-> file]
    ELSE [threw |-> TRUE, file |-> [scores |-> <<>>, torn |-> TRUE]]

\* StorageService.getScores: throws when readFile fails or JSON.parse meets
\* a text cut short
ReadScores(file, readFails) ==
    IF readFails \/ file.torn
    THEN [threw |-> TRUE, scores |-> <<>>]
    ELSE [threw |-> FALSE, scores |-> file.scores]

\* StorageService.addScore with its failures
AddScoreCall(file, name, scr, date, readFails, outcome) ==
    IF ReadScores(file, readFails).threw
    THEN [threw |-> TRUE, file |-> file]
    ELSE WriteFile(file, AddScore(file.scores, name, scr, date), outcome)

\* POST /api/scores after the call of addScore: res.json(result), or the
\* catch
PostAnswer(r) == [status |-> IF r.threw THEN 500 ELSE 200, file |-> r.file]

\* POST /api/scores: the status answered and the score file left
PostRoute(file, body, date, readFails, outcome) ==
    IF Falsy(body.name) \/ body.score.kind # "number"
    THEN [status |-> 400, file |-> file]
    ELSE PostAnswer(AddScoreCall(file, body.name.str, body.score.num, date,
                                 readFails, outcome))

\* GET /api/scores: the status answered
GetRoute(file, readFails) ==
    IF ReadScores(file, readFails).threw THEN 500 ELSE 200

\* a JSON array: its items, and the named properties it has
JsonArray(items) == [type |-> "array", items |-> items, props |-> [length |-> Len(items)]]

\* a JSON object: its named properties
JsonObject(props) == [type |-> "object", items |-> <<>>, props |-> props]

\* GET /api/scores answers res.json(scores): the body is the array itself
GetScoresBody == JsonArray(GetScores)

\* what fetch('/api/scores') can end with: the answer of the route, its 500
\* answer (getScores threw), or an exception (no answer, or no JSON)
Responses ==
    { [kind |-> "ok", data |-> GetScoresBody],
      [kind |-> "notOk", data |-> JsonObject([error |-> "Failed to get scores"])],
      [kind |-> "throws", data |-> JsonObject([error |-> "TypeError"])] }

\* data.scores: the property of that name, if the value has one
PropScores(data) ==
    IF "scores" \in DOMAIN data.props
    THEN [defined |-> TRUE, value |-> data.props.scores]
    ELSE [defined |-> FALSE, value |-> <<>>]

\* variant: an answer that arrives also closes the scoreboard
ResolveFetchClosesBoard(g, res) ==
    IF res.kind = "throws"
    THEN [g EXCEPT !.fetches = @ - 1, !.highScores = <<>>]
    ELSE IF res.kind = "ok"
    THEN [g EXCEPT !.fetches = @ - 1,
                   !.state = IF @ = "scores" THEN g.previousState ELSE @,
                   !.highScores = IF PropScores(res.data).defined
                                  THEN PropScores(res.data).value
                                  ELSE <<>>]
    ELSE [g EXCEPT !.fetches = @ - 1]

\* loadHighScores() after the await: lines 123-131
ResolveFetch(g, res) ==
    IF res.kind = "throws"
    THEN [g EXCEPT !.fetches = @ - 1, !.highScores = <<>>]
    ELSE IF res.kind = "ok"
    THEN [g EXCEPT !.fetches = @ - 1,
                   !.highScores = IF PropScores(res.data).defined
                                  THEN PropScores(res.data).value
                                  ELSE <<>>]
    ELSE [g EXCEPT !.fetches = @ - 1]

\* this.onGameOver?.(this.score): the callback of main.ts keeps the score it
\* was called with and sets the timer of the name prompt
InvokeOnGameOver(g) ==
    IF g.onGameOver
    THEN [g EXCEPT !.submits = Append(@, [phase |-> "timer", score |-> g.score,
                                          name |-> <<>>])]
    ELSE g

\* loadHighScores(): the request goes out; the response comes later
LoadHighScores(g) == [Call(g, "loadHighScores") EXCEPT !.fetches = @ + 1]

\* refreshHighScores(): public, called by main.ts once a score is posted
RefreshHighScores(g) == LoadHighScores(Call(g, "refreshHighScores"))

\* requestAnimationFrame: a fresh frame id is pending and remembered
RequestAnimationFrame(g) ==
    LET id == CHOOSE i \in 1..(Cardinality(g.frames) + 1) :
                  /\ i \notin g.frames
                  /\ \A j \in 1..(i - 1) : j \in g.frames
    IN  [g EXCEPT !.frames = @ \cup {id}, !.animationFrameId = id]

\* if (animationFrameId !== null) { cancelAnimationFrame(id); id = null }
CancelAnimationFrame(g) ==
    IF g.animationFrameId # NULL
    THEN [g EXCEPT !.frames = @ \ {g.animationFrameId}, !.animationFrameId = NULL]
    ELSE g

\* variant: a stage starts with the combo it ended with
InitStageKeepsCombo(g, stg) ==
    LET p == PaddleReset
    IN  [Call(g, "initStage") EXCEPT
                  !.stage = stg,
                  !.bricks = CreateBricks(stg),
                  !.paddle = p,
                  !.ball = BallReset(p)]

InitStage(g, stg) ==
    LET p == PaddleReset
    IN  [Call(g, "initStage") EXCEPT
                  !.stage = stg,
                  !.bricks = CreateBricks(stg),
                  !.paddle = p,
                  !.ball = BallReset(p),
                  !.combo = 0]

\* variant: the bonus tiers begin one destruction late
Multiplier2Late(c) == IF c > 10 THEN 4 ELSE IF c > 5 THEN 3 ELSE 2

\* combo bonus, doubled: 2 -> x1, 3 -> x1.5, 4 -> x2
Multiplier2(c) == IF c >= 10 THEN 4 ELSE IF c >= 5 THEN 3 ELSE 2

\* Math.floor(brick.getScore() * multiplier)
Points(brick, c) == (BrickGetScore(brick) * Multiplier2(c)) \div 2

BrickTest(g, i) ==
    BallCheckBrickCollision(g.ball, g.bricks[i].x, g.bricks[i].y,
                            config.brick.width, config.brick.height)

\* variant: the scan goes down the columns instead of along the rows
FirstHitColumnMajor(g) ==
    LET hits == {i \in ActiveBricks(g.bricks) : BrickTest(g, i).hit}
        rank(i) == ((i - 1) % config.brick.cols) * config.brick.rows
                   + (i - 1) \div config.brick.cols
    IN  IF hits = {} THEN 0
        ELSE CHOOSE i \in hits : \A j \in hits : rank(i) <= rank(j)

\* the first active brick, in order, that the ball hits (0: none)
FirstHit(g) ==
    LET hits == {i \in ActiveBricks(g.bricks) : BrickTest(g, i).hit}
    IN  IF hits = {} THEN 0
        ELSE CHOOSE i \in hits : \A j \in hits : i <= j

CheckBrickCollisions(g) ==
    LET i == FirstHit(g)
    IN  IF i = 0 THEN Call(g, "checkBrickCollisions")
        ELSE LET h  == BrickHit(g.bricks[i])
                 g1 == [Call(g, "checkBrickCollisions") EXCEPT
                                 !.ball = BrickTest(g, i).ball,
                                 !.bricks[i] = h.brick]
             IN  IF h.destroyed
                 THEN LET c == g1.combo + 1
                      IN  [g1 EXCEPT !.combo = c,
                                     !.score = @ + Points(g.bricks[i], c)]
                 ELSE g1

\* variant: the game goes on after the last life is gone
HandleBallLostSparesLast(g) ==
    LET g1 == [Call(g, "handleBallLost") EXCEPT !.lives = @ - 1, !.combo = 0]
    IN  IF g1.lives < 0
        THEN LoadHighScores(CancelAnimationFrame(
                 InvokeOnGameOver(SetState(g1, "gameover"))))
        ELSE [g1 EXCEPT !.ball = BallReset(g1.paddle)]

\* variant: a lost ball costs ten points
HandleBallLostCostsPoints(g) ==
    LET g1 == [Call(g, "handleBallLost") EXCEPT !.lives = @ - 1, !.combo = 0,
                                                !.score = @ - 10]
    IN  IF g1.lives <= 0
        THEN LoadHighScores(CancelAnimationFrame(
                 InvokeOnGameOver(SetState(g1, "gameover"))))
        ELSE [g1 EXCEPT !.ball = BallReset(g1.paddle)]

HandleBallLost(g) ==
    LET g1 == [Call(g, "handleBallLost") EXCEPT !.lives = @ - 1, !.combo = 0]
    IN  IF g1.lives <= 0
        THEN LoadHighScores(CancelAnimationFrame(
                 InvokeOnGameOver(SetState(g1, "gameover"))))
        ELSE [g1 EXCEPT !.ball = BallReset(g1.paddle)]

\* variant: the final stage is followed by one more
HandleStageClearPastFinal(g) ==
    IF g.stage > MaxStage
    THEN LoadHighScores(CancelAnimationFrame(
             InvokeOnGameOver(SetState(Call(g, "handleStageClear"), "clear"))))
    ELSE InitStage(Call(g, "handleStageClear"), g.stage + 1)

HandleStageClear(g) ==
    IF g.stage >= MaxStage
    THEN LoadHighScores(CancelAnimationFrame(
             InvokeOnGameOver(SetState(Call(g, "handleStageClear"), "clear"))))
    ELSE InitStage(Call(g, "handleStageClear"), g.stage + 1)

\* the first two statements of update(): paddle.update(), ball.update(paddle)
UpdateObjects(g) ==
    LET p1 == PaddleUpdate(g.paddle)
    IN  [Call(g, "update") EXCEPT !.paddle = p1,
                                  !.ball = BallUpdate(g.ball, p1).ball]

\* variant: the bricks are scanned and the stage-clear check is made before
\* the lost ball is handled
UpdateScansLostBall(g) ==
    LET bu == BallUpdate(g.ball, PaddleUpdate(g.paddle))
        g1 == UpdateObjects(g)
        g2 == CheckBrickCollisions(g1)
    IN  IF GetRemainingCount(g2.bricks) = 0 THEN HandleStageClear(g2)
        ELSE IF bu.result = "lost" THEN HandleBallLost(g2)
        ELSE g2

Update(g) ==
    LET bu == BallUpdate(g.ball, PaddleUpdate(g.paddle))
        g1 == UpdateObjects(g)
    IN  IF bu.result = "lost" THEN HandleBallLost(g1)
        ELSE LET g2 == CheckBrickCollisions(g1)
             IN  IF GetRemainingCount(g2.bricks) = 0 THEN HandleStageClear(g2)
                 ELSE g2

\* variant: the loop does not look at the state
GameLoopInAnyState(g) == RequestAnimationFrame(Update(g))

GameLoop(g) ==
    IF g.state # "playing" THEN g
    ELSE RequestAnimationFrame(Update(g))

\* variant: start() lays out no bricks
StartKeepsBricks(g) ==
    IF g.state # "idle" THEN g
    ELSE GameLoop([InitStage(SetState(Call(g, "start"), "playing"), g.stage)
                      EXCEPT !.bricks = g.bricks])

Start(g) ==
    IF g.state # "idle" THEN g
    ELSE GameLoop(InitStage(SetState(Call(g, "start"), "playing"), g.stage))

Pause(g) ==
    IF g.state # "playing" THEN g
    ELSE CancelAnimationFrame(SetState(Call(g, "pause"), "paused"))

Resume(g) ==
    IF g.state # "paused" THEN g
    ELSE GameLoop(SetState(Call(g, "resume"), "playing"))

\* variant: quit() leaves the combo standing
QuitKeepsCombo(g) ==
    IF g.state # "paused" /\ g.state # "gameover" /\ g.state # "clear" THEN g
    ELSE LET p == PaddleReset
         IN  LoadHighScores([SetState(Call(g, "quit"), "idle") EXCEPT
                                !.score = 0,
                                !.lives = config.lives,
                                !.stage = 1,
                                !.paddle = p,
                                !.ball = BallReset(p)])

Quit(g) ==
    IF g.state # "paused" /\ g.state # "gameover" /\ g.state # "clear" THEN g
    ELSE LET p == PaddleReset
         IN  LoadHighScores([SetState(Call(g, "quit"), "idle") EXCEPT
                                !.score = 0,
                                !.lives = config.lives,
                                !.stage = 1,
                                !.combo = 0,
                                !.paddle = p,
                                !.ball = BallReset(p)])

\* variant: restart() leaves the lives as they are
RestartKeepsLives(g) ==
    LET p == PaddleReset
    IN  LoadHighScores([SetState(Call(g, "restart"), "idle") EXCEPT
                           !.score = 0,
                           !.stage = 1,
                           !.combo = 0,
                           !.paddle = p,
                           !.ball = BallReset(p)])

\* variant: restart() leaves the stage standing
RestartKeepsStage(g) ==
    LET p == PaddleReset
    IN  LoadHighScores([SetState(Call(g, "restart"), "idle") EXCEPT
                           !.score = 0,
                           !.lives = config.lives,
                           !.combo = 0,
                           !.paddle = p,
                           !.ball = BallReset(p)])

\* restart() has no guard on the state it is called in
Restart(g) ==
    LET p == PaddleReset
    IN  LoadHighScores([SetState(Call(g, "restart"), "idle") EXCEPT
                           !.score = 0,
                           !.lives = config.lives,
                           !.stage = 1,
                           !.combo = 0,
                           !.paddle = p,
                           !.ball = BallReset(p)])

\* the entries of Game.keys that are ever read
MoveKeys == {"ArrowLeft", "KeyA", "ArrowRight", "KeyD"}

SetKey(g, code, down) ==
    IF code \notin MoveKeys THEN g
    ELSE [g EXCEPT !.keys = IF down THEN @ \cup {code} ELSE @ \ {code}]

\* handleKeyDown outside the scoreboard, one operator per if-statement
\* arrow keys: paddle.setDirection
KeyMove(g, code) ==
    IF code \in {"ArrowLeft", "KeyA"}
    THEN [g EXCEPT !.paddle = PaddleSetDirection(@, -1)]
    ELSE IF code \in {"ArrowRight", "KeyD"}
    THEN [g EXCEPT !.paddle = PaddleSetDirection(@, 1)]
    ELSE g

\* variant: the Space that starts the game launches the ball as well
KeySpaceStartsAndLaunches(g, code, rnd) ==
    IF code # "Space" THEN g
    ELSE IF g.state = "idle"
    THEN [Call(Start(g), "launch") EXCEPT !.ball = BallLaunch(@, rnd)]
    ELSE IF g.state = "playing" /\ ~g.ball.launched
    THEN [Call(g, "launch") EXCEPT !.ball = BallLaunch(@, rnd)]
    ELSE g

\* Space: start the game / launch the ball
KeySpace(g, code, rnd) ==
    IF code # "Space" THEN g
    ELSE IF g.state = "idle" THEN Start(g)
    ELSE IF g.state = "playing" /\ ~g.ball.launched
    THEN [Call(g, "launch") EXCEPT !.ball = BallLaunch(@, rnd)]
    ELSE g

\* Escape / P: pause toggle
KeyPause(g, code) ==
    IF code \notin {"Escape", "KeyP"} THEN g
    ELSE IF g.state = "playing" THEN Pause(g)
    ELSE IF g.state = "paused" THEN Resume(g)
    ELSE g

\* Q: quit from paused, gameover, clear
KeyQuit(g, code) ==
    IF code = "KeyQ" /\ g.state \in {"paused", "gameover", "clear"}
    THEN Quit(g) ELSE g

\* Escape: quit from gameover, clear
KeyEscapeQuit(g, code) ==
    IF code = "Escape" /\ g.state \in {"gameover", "clear"}
    THEN Quit(g) ELSE g

\* variant: R restarts in any state
KeyRestartAnywhere(g, code) ==
    IF code = "KeyR" THEN Restart(g) ELSE g

\* R: restart from gameover, clear
KeyRestart(g, code) ==
    IF code = "KeyR" /\ g.state \in {"gameover", "clear"}
    THEN Restart(g) ELSE g

\* lines 186-231 of handleKeyDown: the if-statements in order
KeyDownInGame(g, code, rnd) ==
    KeyRestart(
        KeyEscapeQuit(
            KeyQuit(
                KeyPause(
                    KeySpace(KeyMove(g, code), code, rnd),
                    code),
                code),
            code),
        code)

\* variant: the scoreboard always closes into idle
HandleKeyDownExitsToIdle(g, code, rnd) ==
    LET g0 == SetKey(g, code, TRUE)
    IN  IF code = "KeyS" /\ g0.state = "scores"
        THEN SetState(g0, "idle")
        ELSE IF code = "KeyS" /\ g0.state \in {"idle", "gameover", "clear"}
        THEN LoadHighScores(SetState([g0 EXCEPT !.previousState = g0.state],
                                     "scores"))
        ELSE IF g0.state = "scores"
        THEN (IF code = "Escape" THEN SetState(g0, "idle") ELSE g0)
        ELSE KeyDownInGame(g0, code, rnd)

\* variant: leaving the scoreboard with S asks for the scores as well
HandleKeyDownFetchesOnClose(g, code, rnd) ==
    LET g0 == SetKey(g, code, TRUE)
    IN  IF code = "KeyS" /\ g0.state = "scores"
        THEN LoadHighScores(SetState(g0, g0.previousState))
        ELSE IF code = "KeyS" /\ g0.state \in {"idle", "gameover", "clear"}
        THEN LoadHighScores(SetState([g0 EXCEPT !.previousState = g0.state],
                                     "scores"))
        ELSE IF g0.state = "scores"
        THEN (IF code = "Escape" THEN SetState(g0, g0.previousState) ELSE g0)
        ELSE KeyDownInGame(g0, code, rnd)

HandleKeyDown(g, code, rnd) ==
    LET g0 == SetKey(g, code, TRUE)
    IN  IF code = "KeyS" /\ g0.state = "scores"
        THEN SetState(g0, g0.previousState)
        ELSE IF code = "KeyS" /\ g0.state \in {"idle", "gameover", "clear"}
        THEN LoadHighScores(SetState([g0 EXCEPT !.previousState = g0.state],
                                     "scores"))
        ELSE IF g0.state = "scores"
        THEN (IF code = "Escape" THEN SetState(g0, g0.previousState) ELSE g0)
        ELSE KeyDownInGame(g0, code, rnd)

HandleKeyUp(g, code) ==
    LET g0 == SetKey(g, code, FALSE)
    IN  IF code \in {"ArrowLeft", "KeyA"}
        THEN IF "ArrowRight" \notin g0.keys /\ "KeyD" \notin g0.keys
             THEN [g0 EXCEPT !.paddle = PaddleSetDirection(@, 0)]
             ELSE [g0 EXCEPT !.paddle = PaddleSetDirection(@, 1)]
        ELSE IF code \in {"ArrowRight", "KeyD"}
        THEN IF "ArrowLeft" \notin g0.keys /\ "KeyA" \notin g0.keys
             THEN [g0 EXCEPT !.paddle = PaddleSetDirection(@, 0)]
             ELSE [g0 EXCEPT !.paddle = PaddleSetDirection(@, -1)]
        ELSE g0

HandleMouseMove(g, mouseX) ==
    IF g.state # "playing" THEN g
    ELSE [g EXCEPT !.paddle = PaddleSetPositionX(@, mouseX)]

\* variant: a click resumes a paused game
HandleClickResumes(g, rnd) ==
    IF g.state = "idle" THEN Start(g)
    ELSE IF g.state = "playing" /\ ~g.ball.launched
    THEN [Call(g, "launch") EXCEPT !.ball = BallLaunch(@, rnd)]
    ELSE IF g.state = "paused" THEN Resume(g)
    ELSE g

HandleClick(g, rnd) ==
    IF g.state = "idle" THEN Start(g)
    ELSE IF g.state = "playing" /\ ~g.ball.launched
    THEN [Call(g, "launch") EXCEPT !.ball = BallLaunch(@, rnd)]
    ELSE g

(***************************************************************************)
(* The program as a state machine: the browser delivers one event at a     *)
(* time (key down, key up, mouse move, click, animation frame, fetch       *)
(* response), each handled to completion.                                  *)
(***************************************************************************)
\* at most this many frame callbacks pending at once
MaxFrames == 1

\* at most this many score fetches awaiting their response at once
MaxFetches == 1

\* e.code of the keyboard events delivered ("KeyX": an unmapped key)
KeyCodes ==
    {"ArrowLeft", "ArrowRight", "Space", "Escape", "KeyP", "KeyQ", "KeyR",
     "KeyS", "KeyX"}

\* e.clientX - rect.left of the mouse events delivered
MouseXs == {-3, 3, 9}

Bounded(g) ==
    /\ Cardinality(g.frames) <= MaxFrames
    /\ g.fetches <= MaxFetches

\* Game constructor
GameInit ==
    /\ state = "idle"
    /\ previousState = "idle"
    /\ score = 0
    /\ lives = config.lives
    /\ stage = 1
    /\ combo = 0
    /\ paddle = PaddleReset
    /\ ball = BallNew
    /\ bricks = <<>>
    /\ keys = {}
    /\ animationFrameId = NULL
    /\ frames = {}
    /\ fetches = 1
    /\ highScores = <<>>
    /\ submits = <<>>

\* the score file the server starts with
StoredScores == <<[name |-> <<"A">>, score |-> 50, date |-> 0]>>

\* the game alone: no game-over callback is registered
Init ==
    /\ config = SmallConfig
    /\ GameInit
    /\ onGameOver = FALSE
    /\ storage = StoredScores
    /\ adds = <<>>
    /\ velocity = VelocityNew
    /\ torn = FALSE
    /\ inflight = <<>>

Do(g) == Bounded(g) /\ Becomes(g) /\ UNCHANGED <<storage, adds, velocity, torn, inflight>>

\* Math.random() is drawn only where launch() runs on an unlaunched ball
Draws(launching) ==
    IF launching /\ state = "playing" /\ ~ball.launched THEN LaunchDraws
    ELSE {CHOOSE rnd \in LaunchDraws : TRUE}

KeyDown ==
    \E code \in KeyCodes :
        \E rnd \in Draws(code = "Space") : Do(HandleKeyDown(Self, code, rnd))

\* keyup of the movement keys and of one other key
KeyUp == \E code \in (KeyCodes \cap MoveKeys) \cup {"KeyX"} : Do(HandleKeyUp(Self, code))

MouseMove == \E mouseX \in MouseXs : Do(HandleMouseMove(Self, mouseX))

Click == \E rnd \in Draws(TRUE) : Do(HandleClick(Self, rnd))

\* a pending frame callback runs: () => this.gameLoop()
Frame == \E id \in frames : Do(GameLoop([Self EXCEPT !.frames = @ \ {id}]))

\* the response of a fetch arrives
FetchResolve ==
    /\ fetches > 0
    /\ \E res \in Responses : Becomes(ResolveFetch(Self, res))
    /\ UNCHANGED <<storage, adds, velocity, torn, inflight>>

Next == KeyDown \/ KeyUp \/ MouseMove \/ Click \/ Frame \/ FetchResolve

Spec == Init /\ [][Next]_vars

(***************************************************************************)
(* The game with the page's unload handler, which calls destroy(), among   *)
(* its events.                                                             *)
(***************************************************************************)
\* setupEventListeners: the listeners registered, each with the function
\* object that bind() made for it (every call of bind() makes a new one)
Listeners ==
    { [type |-> "keydown", fn |-> 1], [type |-> "keyup", fn |-> 2],
      [type |-> "mousemove", fn |-> 3], [type |-> "click", fn |-> 4] }

\* removeEventListener(type, fn): removes the listener registered with that
\* very function object, if there is one
RemoveEventListener(ls, type, fn) == ls \ {[type |-> type, fn |-> fn]}

\* destroy(): the listeners left; its two bind() calls make the function
\* objects 5 and 6
ListenersAfterDestroy ==
    RemoveEventListener(RemoveEventListener(Listeners, "keydown", 5), "keyup", 6)

\* destroy(): the frame whose id is kept is cancelled, the id stays
Destroy(g) ==
    IF g.animationFrameId # NULL
    THEN [Call(g, "destroy") EXCEPT !.frames = @ \ {g.animationFrameId}]
    ELSE Call(g, "destroy")

\* beforeunload: if (game) game.destroy()
Unload == Do(Destroy(Self))

UnloadNext == Next \/ Unload

SpecUnload == Init /\ [][UnloadNext]_vars

(***************************************************************************)
(* The paddle alone: its four methods called in any order.                 *)
(***************************************************************************)
\* arguments of setDirection
Directions == {-2, -1, 0, 1, 2}

\* arguments of setPositionX: left of, on, and right of the canvas
PaddleXs == {-5, 0, 18, 19, 40, 55}

PaddleInit ==
    /\ config = WideConfig
    /\ GameInit
    /\ onGameOver = FALSE
    /\ storage = <<>>
    /\ adds = <<>>
    /\ velocity = VelocityNew
    /\ torn = FALSE
    /\ inflight = <<>>

PaddleBecomes(p) ==
    /\ paddle' = p
    /\ UNCHANGED <<config, state, previousState, score, lives, stage, combo,
                   ball, bricks, keys, animationFrameId, frames, fetches,
                   highScores, onGameOver, submits, storage, adds, velocity, torn, inflight>>

CallReset == PaddleBecomes(PaddleReset)

CallSetDirection == \E dir \in Directions : PaddleBecomes(PaddleSetDirection(paddle, dir))

CallSetPositionX == \E mouseX \in PaddleXs : PaddleBecomes(PaddleSetPositionX(paddle, mouseX))

CallUpdate == PaddleBecomes(PaddleUpdate(paddle))

PaddleNext == CallReset \/ CallSetDirection \/ CallSetPositionX \/ CallUpdate

SpecPaddle == PaddleInit /\ [][PaddleNext]_vars

(***************************************************************************)
(* The bricks alone: the grid of a stage, hit() called on any active brick *)
(* in any order.                                                           *)
(***************************************************************************)
BrickInit ==
    /\ config = GridConfig
    /\ state = "playing"
    /\ previousState = "idle"
    /\ score = 0
    /\ lives = config.lives
    /\ stage \in 1..MaxStage
    /\ combo = 0
    /\ paddle = PaddleReset
    /\ ball = BallReset(PaddleReset)
    /\ bricks = CreateBricks(stage)
    /\ keys = {}
    /\ animationFrameId = NULL
    /\ frames = {}
    /\ fetches = 0
    /\ highScores = <<>>
    /\ onGameOver = FALSE
    /\ submits = <<>>
    /\ storage = <<>>
    /\ adds = <<>>
    /\ velocity = VelocityNew
    /\ torn = FALSE
    /\ inflight = <<>>

CallHit ==
    \E i \in ActiveBricks(bricks) :
        /\ bricks' = [bricks EXCEPT ![i] = BrickHit(@).brick]
        /\ UNCHANGED <<config, state, previousState, score, lives, stage, combo,
                       paddle, ball, keys, animationFrameId, frames, fetches,
                       highScores, onGameOver, submits, storage, adds, velocity, torn, inflight>>

SpecBrick == BrickInit /\ [][CallHit]_vars

(***************************************************************************)
(* The game on the deep court, played with the space bar and the mouse.    *)
(***************************************************************************)
FieldInit ==
    /\ config = FieldConfig
    /\ GameInit
    /\ onGameOver = FALSE
    /\ storage = <<>>
    /\ adds = <<>>
    /\ velocity = VelocityNew
    /\ torn = FALSE
    /\ inflight = <<>>

SpaceDown == \E rnd \in Draws(TRUE) : Do(HandleKeyDown(Self, "Space", rnd))

FieldNext == SpaceDown \/ MouseMove \/ Frame \/ FetchResolve

SpecField == FieldInit /\ [][FieldNext]_vars

(***************************************************************************)
(* The game with the page around it: main.ts registers the game-over       *)
(* callback, which asks for a name and posts the score.  Loops and fetches  *)
(* may pile up here.                                                        *)
(***************************************************************************)
MaxLoops == 2
MaxInFlight == 2
MaxPrompts == 1
MaxStored == 1

ClientBounded(g) ==
    /\ Cardinality(g.frames) <= MaxLoops
    /\ g.fetches <= MaxInFlight
    /\ Len(g.submits) <= MaxPrompts

ClientInit ==
    /\ config = SmallConfig
    /\ GameInit
    /\ onGameOver = TRUE
    /\ storage = <<>>
    /\ adds = <<>>
    /\ velocity = VelocityNew
    /\ torn = FALSE
    /\ inflight = <<>>

ClientDo(g) ==
    /\ ClientBounded(g)
    /\ Becomes(g)
    /\ UNCHANGED <<storage, adds, velocity, torn, inflight>>

ClientKeys == {"Space", "KeyP", "KeyR", "KeyS"}

ClientKeyDown ==
    \E code \in ClientKeys :
        \E rnd \in Draws(code = "Space") : ClientDo(HandleKeyDown(Self, code, rnd))

ClientFrame ==
    \E id \in frames : ClientDo(GameLoop([Self EXCEPT !.frames = @ \ {id}]))

\* String.prototype.trim on a string of the characters " " and "A"
RECURSIVE TrimStart(_)
TrimStart(str) ==
    IF str # <<>> /\ Head(str) = " " THEN TrimStart(Tail(str)) ELSE str

RECURSIVE TrimEnd(_)
TrimEnd(str) ==
    IF str # <<>> /\ str[Len(str)] = " "
    THEN TrimEnd(SubSeq(str, 1, Len(str) - 1))
    ELSE str

Trim(str) == TrimStart(TrimEnd(str))

\* what prompt() returns: null (cancelled) or the text typed
PromptAnswers ==
    { [given |-> FALSE, text |-> <<>>],
      [given |-> TRUE, text |-> <<>>],
      [given |-> TRUE, text |-> <<" ">>],
      [given |-> TRUE, text |-> <<" ", "A">>] }

\* variant: the callback posts the score the game has when the prompt is
\* answered
PromptAnsweredLiveScore(g, answer) ==
    IF answer.given /\ answer.text # <<>> /\ Trim(answer.text) # <<>>
    THEN [g EXCEPT !.submits[1] =
             [phase |-> "posted", score |-> g.score,
              name |-> Trim(answer.text)]]
    ELSE [g EXCEPT !.submits = Tail(@)]

\* the callback from its prompt on: if (name && name.trim()) the POST goes
\* out with the trimmed name and the score the callback was given
PromptAnswered(g, answer) ==
    IF answer.given /\ answer.text # <<>> /\ Trim(answer.text) # <<>>
    THEN [g EXCEPT !.submits[1] =
             [phase |-> "posted", score |-> g.submits[1].score,
              name |-> Trim(answer.text)]]
    ELSE [g EXCEPT !.submits = Tail(@)]

\* the timer of the callback fires
Prompt ==
    /\ submits # <<>>
    /\ submits[1].phase = "timer"
    /\ \E answer \in PromptAnswers : Becomes(PromptAnswered(Self, answer))
    /\ UNCHANGED <<storage, adds, velocity, torn, inflight>>

\* the answer of the route as the page's fetch meets it
StatusAndScores(a) == [status |-> a.status, scores |-> a.file.scores]

\* POST /api/scores: 400 without a name, else addScore; 500 if that throws
PostScores(name, scr, storageFails) ==
    StatusAndScores(PostRoute(File, [name |-> Str(name), score |-> Num(scr)],
                              Now(adds),
                              FALSE, IF storageFails THEN "refused" ELSE "written"))

\* the POST ends: with an answer of the route (whatever its status, fetch
\* does not throw), and then refreshHighScores(); or with an exception
PostResolve ==
    /\ submits # <<>>
    /\ submits[1].phase = "posted"
    /\ \/ \E storageFails \in BOOLEAN :
             LET answer == PostScores(submits[1].name, submits[1].score, storageFails)
             IN  /\ Len(answer.scores) <= MaxStored
                 /\ storage' = answer.scores
                 /\ adds' = IF answer.status = 200
                            THEN Append(adds, NewEntry(submits[1].name,
                                                       submits[1].score, Now(adds)))
                            ELSE adds
                 /\ UNCHANGED <<velocity, torn, inflight>>
                 /\ ClientBounded(RefreshHighScores(Self))
                 /\ Becomes(RefreshHighScores([Self EXCEPT !.submits = Tail(@)]))
       \/ /\ Becomes([Self EXCEPT !.submits = Tail(@)])
          /\ UNCHANGED <<storage, adds, velocity, torn, inflight>>

ClientNext ==
    ClientKeyDown \/ ClientFrame \/ FetchResolve \/ Prompt \/ PostResolve

SpecClient == ClientInit /\ [][ClientNext]_vars

(***************************************************************************)
(* The score store alone: addScore called again and again, one call at a   *)
(* time, on a store that starts without a file.                             *)
(***************************************************************************)
MaxAdds == 11

\* the scores submitted
StoreScores == {10, 20, 30}

StoreInit ==
    /\ config = SmallConfig
    /\ GameInit
    /\ onGameOver = FALSE
    /\ storage = <<>>
    /\ adds = <<>>
    /\ velocity = VelocityNew
    /\ torn = FALSE
    /\ inflight = <<>>

CallAddScore ==
    /\ Len(adds) < MaxAdds
    /\ \E scr \in StoreScores :
          /\ storage' = AddScore(GetScores, <<"A">>, scr, Now(adds))
          /\ adds' = Append(adds, NewEntry(<<"A">>, scr, Now(adds)))
    /\ UNCHANGED <<config, state, previousState, score, lives, stage, combo,
                   paddle, ball, bricks, keys, animationFrameId, frames,
                   fetches, highScores, onGameOver, submits, velocity, torn, inflight>>

SpecStore == StoreInit /\ [][CallAddScore]_vars

(***************************************************************************)
(* The velocity of the ball alone, on the default court: every statement   *)
(* of Ball that assigns the velocity, in any order the positions allow     *)
(***************************************************************************)
SpeedInit ==
    /\ config = DefaultConfig
    /\ GameInit
    /\ onGameOver = FALSE
    /\ storage = <<>>
    /\ adds = <<>>
    /\ velocity = VelocityNew
    /\ torn = FALSE
    /\ inflight = <<>>

VelocityBecomes(v) ==
    /\ velocity' = v
    /\ UNCHANGED <<config, state, previousState, score, lives, stage, combo,
                   paddle, ball, bricks, keys, animationFrameId, frames,
                   fetches, highScores, onGameOver, submits, storage, adds, torn, inflight>>

SpeedLaunch ==
    /\ ~velocity.launched
    /\ \E rnd \in VelocityDraws : VelocityBecomes(VelocityLaunch(velocity, rnd))

SpeedReset ==
    /\ velocity.launched
    /\ VelocityBecomes(VelocityReset)

HitLeftWall == velocity.launched /\ VelocityBecomes(VelocityLeftWall(velocity))

HitRightWall == velocity.launched /\ VelocityBecomes(VelocityRightWall(velocity))

HitTopWall == velocity.launched /\ VelocityBecomes(VelocityTopWall(velocity))

HitBrick ==
    /\ velocity.launched
    /\ \E sideways \in BOOLEAN : VelocityBecomes(VelocityBrick(velocity, sideways))

HitPaddle ==
    /\ velocity.launched
    /\ \E hitPosition \in HitPositions :
          VelocityBecomes(VelocityPaddle(velocity, hitPosition))

SpeedNext ==
    \/ SpeedLaunch
    \/ SpeedReset
    \/ HitLeftWall
    \/ HitRightWall
    \/ HitTopWall
    \/ HitBrick
    \/ HitPaddle

SpecSpeed == SpeedInit /\ [][SpeedNext]_vars

(***************************************************************************)
(* The server alone: requests to /api/scores handled one after the other,  *)
(* with the failures the file system can answer with                       *)
(***************************************************************************)
\* at most this many scores are stored
MaxPosts == 6

\* the bodies of the POST requests made
Bodies ==
    [ name : {Undefined, Str(<<>>), Str(<<"A">>)},
      score : {Undefined, Str(<<"7">>), Num(10), Num(20)} ]

ServerInit ==
    /\ config = SmallConfig
    /\ GameInit
    /\ onGameOver = FALSE
    /\ storage = <<>>
    /\ adds = <<>>
    /\ velocity = VelocityNew
    /\ torn = FALSE
    /\ inflight = <<>>

ServerBecomes(file) ==
    /\ storage' = file.scores
    /\ torn' = file.torn
    /\ UNCHANGED <<config, state, previousState, score, lives, stage, combo,
                   paddle, ball, bricks, keys, animationFrameId, frames,
                   fetches, highScores, onGameOver, submits, velocity, inflight>>

\* the server has answered a POST with a
Posted(a, body) ==
    /\ ServerBecomes(a.file)
    /\ adds' = IF a.status = 200
               THEN Append(adds, NewEntry(body.name.str, body.score.num, Now(adds)))
               ELSE adds

PostRequest ==
    /\ Len(adds) < MaxPosts
    /\ \E body \in Bodies : \E readFails \in BOOLEAN :
          \E outcome \in WriteOutcomes :
             Posted(PostRoute(File, body, Now(adds), readFails, outcome), body)

GetRequest ==
    /\ \E readFails \in BOOLEAN : GetRoute(File, readFails) \in {200, 500}
    /\ ServerBecomes(File)
    /\ UNCHANGED adds

ServerNext == PostRequest \/ GetRequest

SpecServer == ServerInit /\ [][ServerNext]_vars

(***************************************************************************)
(* addScore calls that overlap: a call gives way to other requests at its  *)
(* awaits, while the file is read and while it is written                  *)
(***************************************************************************)
\* at most this many addScore calls are made
MaxSubmits == 4

\* at most this many addScore calls are under way at once
MaxOverlap == 2

OverlapInit ==
    /\ config = SmallConfig
    /\ GameInit
    /\ onGameOver = FALSE
    /\ storage = <<>>
    /\ adds = <<>>
    /\ velocity = VelocityNew
    /\ torn = FALSE
    /\ inflight = <<>>

\* the sequence seq without its item k
Without(seq, k) == SubSeq(seq, 1, k - 1) \o SubSeq(seq, k + 1, Len(seq))

\* new Date() of the next newEntry: the entries made so far, plus one
OverlapNow ==
    Len(adds) + Cardinality({k \in DOMAIN inflight : inflight[k].phase = "writing"}) + 1

OverlapBecomes(file, log, calls) ==
    /\ storage' = file
    /\ adds' = log
    /\ inflight' = calls
    /\ UNCHANGED <<config, state, previousState, score, lives, stage, combo,
                   paddle, ball, bricks, keys, animationFrameId, frames,
                   fetches, highScores, onGameOver, submits, velocity, torn>>

\* variant: a call reads the file only when no other call is between its
\* read and the end of its write
AddScoreReadsAlone(k) ==
    /\ inflight[k].phase = "reading"
    /\ \A j \in DOMAIN inflight : inflight[j].phase # "writing"
    /\ OverlapBecomes(storage, adds,
          [inflight EXCEPT ![k] =
              [phase |-> "writing",
               entry |-> NewEntry(inflight[k].entry.name,
                                  inflight[k].entry.score, OverlapNow),
               scores |-> AddScore(GetScores, inflight[k].entry.name,
                                   inflight[k].entry.score, OverlapNow)]])

\* addScore is called: up to await this.getScores()
AddScoreBegins ==
    /\ Len(adds) + Len(inflight) < MaxSubmits
    /\ Len(inflight) < MaxOverlap
    /\ \E scr \in StoreScores :
          OverlapBecomes(storage, adds,
              Append(inflight, [phase |-> "reading",
                                entry |-> NewEntry(<<"A">>, scr, 0),
                                scores |-> <<>>]))

\* getScores() has returned the file's list: newEntry, push, sort, slice,
\* up to await writeFile(...)
AddScoreReads(k) ==
    /\ inflight[k].phase = "reading"
    /\ OverlapBecomes(storage, adds,
          [inflight EXCEPT ![k] =
              [phase |-> "writing",
               entry |-> NewEntry(inflight[k].entry.name,
                                  inflight[k].entry.score, OverlapNow),
               scores |-> AddScore(GetScores, inflight[k].entry.name,
                                   inflight[k].entry.score, OverlapNow)]])

\* writeFile has written the call's list over the file: return newEntry
AddScoreWrites(k) ==
    /\ inflight[k].phase = "writing"
    /\ OverlapBecomes(inflight[k].scores, Append(adds, inflight[k].entry),
                      Without(inflight, k))

OverlapNext ==
    \/ AddScoreBegins
    \/ \E k \in DOMAIN inflight : AddScoreReads(k)
    \/ \E k \in DOMAIN inflight : AddScoreWrites(k)

SpecOverlap == OverlapInit /\ [][OverlapNext]_vars

\* the same game on a court of three rows of two bricks
GridInit ==
    /\ config = GridConfig
    /\ GameInit
    /\ onGameOver = FALSE
    /\ storage = <<>>
    /\ adds = <<>>
    /\ velocity = VelocityNew
    /\ torn = FALSE
    /\ inflight = <<>>

SpecGrid == GridInit /\ [][FieldNext]_vars

\* the same game with a ball of radius 2
RoundInit ==
    /\ config = RoundConfig
    /\ GameInit
    /\ onGameOver = FALSE
    /\ storage = <<>>
    /\ adds = <<>>
    /\ velocity = VelocityNew
    /\ torn = FALSE
    /\ inflight = <<>>

SpecRound == RoundInit /\ [][FieldNext]_vars

(***************************************************************************)
(* Events and their handlers, for the properties that speak of every       *)
(* event that can be delivered in a state.                                 *)
(***************************************************************************)
\* the events the listeners of setupEventListeners and the frame callback take
Events ==
    [type : {"keydown", "keyup"}, code : KeyCodes, x : {0}, id : {0}]
    \cup [type : {"mousemove"}, code : {"none"}, x : MouseXs, id : {0}]
    \cup [type : {"click"}, code : {"none"}, x : {0}, id : {0}]
    \cup [type : {"frame"}, code : {"none"}, x : {0}, id : frames]

\* the game after the handler of event e has run to its end
Handle(g, e, rnd) ==
    CASE e.type = "keydown"   -> HandleKeyDown(g, e.code, rnd)
      [] e.type = "keyup"     -> HandleKeyUp(g, e.code)
      [] e.type = "mousemove" -> HandleMouseMove(g, e.x)
      [] e.type = "click"     -> HandleClick(g, rnd)
      [] e.type = "frame"     -> GameLoop([g EXCEPT !.frames = @ \ {e.id}])

IsKey(e, codes) == e.type = "keydown" /\ e.code \in codes

\* the random draws the handler of e may consume
DrawsOf(e) == Draws(IsKey(e, {"Space"}) \/ e.type = "click")

\* ball.update(paddle) of the coming tick reports the ball lost
BallLostNow == BallUpdate(ball, PaddleUpdate(paddle)).result = "lost"

\* the game as the tick of a frame, or of resume(), finds it
AtTick == IF state = "paused" THEN [Self EXCEPT !.state = "playing"] ELSE Self

\* a tick is possible, and ...
Ticking == state \in {"playing", "paused"}

\* ... its brick scan leaves no brick
FieldClearedNow ==
    /\ ~BallLostNow
    /\ GetRemainingCount(CheckBrickCollisions(UpdateObjects(AtTick)).bricks) = 0

\* score, lives, stage and combo of g are those of the current state
SameCounters(g) ==
    g.score = score /\ g.lives = lives /\ g.stage = stage /\ g.combo = combo


(***************************************************************************)
(* C1                                                                      *)
(***************************************************************************)
\* the state change a -> b, made by the handler of e that ends in game g1,
\* is one of the edges of the state machine, taken for its cause
EdgeAllowed(a, b, e, g1) ==
    \/ a = "idle" /\ b = "playing" /\ (IsKey(e, {"Space"}) \/ e.type = "click")
    \/ a = "playing" /\ b = "paused" /\ IsKey(e, {"Escape", "KeyP"})
    \/ a = "paused" /\ b = "playing" /\ IsKey(e, {"Escape", "KeyP"})
    \/ a = "playing" /\ b = "gameover" /\ BallLostNow /\ lives = 1
    \/ /\ a = "playing" /\ b = "clear"
       /\ stage = MaxStage /\ GetRemainingCount(g1.bricks) = 0
    \/ a \in {"paused", "gameover", "clear"} /\ b = "idle" /\ IsKey(e, {"KeyQ"})
    \/ a \in {"gameover", "clear"} /\ b = "idle" /\ IsKey(e, {"Escape", "KeyR"})
    \/ a \in {"idle", "gameover", "clear"} /\ b = "scores" /\ IsKey(e, {"KeyS"})
    \/ a = "scores" /\ b = previousState /\ IsKey(e, {"KeyS", "Escape"})

PathAllowed(e, g1) ==
    LET path == <<state>> \o g1.changes
    IN  /\ g1.state = path[Len(path)]
        /\ \A k \in 1..(Len(path) - 1) : EdgeAllowed(path[k], path[k + 1], e, g1)

\* C1: under every key-down, key-up, mouse-move, click and frame event, each
\* assignment to the match state follows one of the edges idle->playing
\* (Space, click), playing<->paused (Escape, P), playing->gameover (ball lost
\* with the last life), playing->clear (field cleared on the final stage),
\* paused/gameover/clear->idle (Q; Escape from gameover/clear),
\* gameover/clear->idle (R), idle/gameover/clear->scores (S),
\* scores->previous state (S, Escape); the state changes in no other way.
C1_OnlyListedEdges ==
    \A e \in Events :
        \A rnd \in DrawsOf(e) : PathAllowed(e, Handle(Self, e, rnd))

\* one key press walks three edges: resume, ball lost with the last life, quit
C1_Witness ==
    /\ state = "paused"
    /\ \E rnd \in LaunchDraws :
          HandleKeyDown(Self, "Escape", rnd).changes = <<"playing", "gameover", "idle">>

(***************************************************************************)
(* C3                                                                      *)
(***************************************************************************)
\* C3: whatever sequence of Paddle.reset, setDirection, setPositionX (any x,
\* also negative or beyond the canvas) and update has run, the paddle's x is
\* within 0 .. canvasWidth - paddleWidth.
C3_PaddleInBounds ==
    /\ 0 <= paddle.x
    /\ paddle.x <= config.canvas.width - config.paddle.width

\* the paddle rests against the right wall while still told to move right
C3_Witness ==
    /\ paddle.x = config.canvas.width - config.paddle.width
    /\ paddle.direction > 0
    /\ PaddleUpdate(paddle) = paddle
    /\ \E mouseX \in PaddleXs : mouseX > config.canvas.width

(***************************************************************************)
(* C2                                                                      *)
(***************************************************************************)
\* C2: start(), pause(), resume(), quit() and restart() called outside their
\* source states (start: idle; pause: playing; resume: paused; quit: paused,
\* gameover, clear; restart: gameover, clear) leave state, score, lives,
\* stage and combo as they were.
C2_OperationsGuarded ==
    LET Kept(g) == g.state = state /\ SameCounters(g)
    IN  /\ state # "idle" => Kept(Start(Self))
        /\ state # "playing" => Kept(Pause(Self))
        /\ state # "paused" => Kept(Resume(Self))
        /\ state \notin {"paused", "gameover", "clear"} => Kept(Quit(Self))
        /\ state \notin {"gameover", "clear"} => Kept(Restart(Self))

(***************************************************************************)
(* C4                                                                      *)
(***************************************************************************)
\* C4: a tick whose ball update reports lost takes exactly one life and sets
\* combo to 0; with a life left the state stays playing and the ball lies
\* unlaunched on the paddle, with none left the state is gameover.  Lives is
\* never negative, and within one game lives never goes back up (it rises
\* only in the reset of quit/restart, which ends in idle), so the step from
\* the last life into gameover is taken once per game.
C4_BallLostTakesOneLife ==
    /\ lives >= 0
    /\ (Ticking /\ BallLostNow) =>
          LET g == Update(AtTick)
          IN  /\ g.lives = lives - 1
              /\ g.combo = 0
              /\ g.lives > 0 =>
                    /\ g.state = "playing"
                    /\ g.ball = [x |-> g.paddle.x + config.paddle.width \div 2,
                                 y |-> config.canvas.height - 50 - config.ball.radius - 1,
                                 dx |-> 0, dy |-> 0, launched |-> FALSE]
              /\ g.lives = 0 => g.state = "gameover"
    /\ \A e \in Events :
          \A rnd \in DrawsOf(e) :
              LET g == Handle(Self, e, rnd)
                  path == <<state>> \o g.changes
                  entries == {k \in 1..(Len(path) - 1) : path[k + 1] = "gameover"
                                                         /\ path[k] = "playing"}
              IN  /\ Cardinality(entries) <= 1
                  /\ entries # {} => lives = 1
                  /\ g.lives > lives =>
                        g.state = "idle" /\ g.lives = config.lives

\* the last life is about to go, an earlier one went with the game going on
C4_Witness ==
    /\ state = "playing"
    /\ BallLostNow
    /\ lives = 1
    /\ config.lives > 1
    /\ Update(Self).state = "gameover"

(***************************************************************************)
(* C5                                                                      *)
(***************************************************************************)
\* C5: when a tick leaves no brick on the final stage the state becomes
\* clear and the stage stays; stage is always within 1 .. 3.
C5_FinalStageClears ==
    /\ 1 <= stage /\ stage <= 3
    /\ (Ticking /\ FieldClearedNow /\ stage = 3) =>
          LET g == Update(AtTick)
          IN  g.state = "clear" /\ g.stage = 3

\* the last brick of stage 3 went
C5_Witness ==
    /\ state = "clear"
    /\ stage = 3
    /\ GetRemainingCount(bricks) = 0

(***************************************************************************)
(* C6                                                                      *)
(***************************************************************************)
FullDurability(type) == IF type = "hard" THEN 2 ELSE 1

\* C6: when a tick leaves no brick on a stage before the final one, the stage
\* grows by one, rows x cols bricks stand at full durability, paddle and
\* ball are reset (ball unlaunched), combo is 0, the state stays playing,
\* and lives and score are what they were before the advance.
C6_StageAdvance ==
    (Ticking /\ FieldClearedNow /\ stage < 3) =>
        LET scanned == CheckBrickCollisions(UpdateObjects(AtTick))
            g == Update(AtTick)
        IN  /\ g.stage = stage + 1
            /\ Len(g.bricks) = config.brick.rows * config.brick.cols
            /\ \A i \in DOMAIN g.bricks :
                  /\ ~g.bricks[i].destroyed
                  /\ g.bricks[i].durability = FullDurability(g.bricks[i].type)
            /\ g.paddle = [x |-> (config.canvas.width - config.paddle.width) \div 2,
                           direction |-> 0]
            /\ g.ball = [x |-> config.canvas.width \div 2,
                         y |-> config.canvas.height - 50 - config.ball.radius - 1,
                         dx |-> 0, dy |-> 0, launched |-> FALSE]
            /\ g.combo = 0
            /\ g.state = "playing"
            /\ g.lives = lives
            /\ g.score = scanned.score

\* stage 2 has just begun: points on the board, a fresh field, ball waiting
C6_Witness ==
    /\ state = "playing"
    /\ stage = 2
    /\ score > 0
    /\ combo = 0
    /\ ~ball.launched
    /\ \A i \in DOMAIN bricks : bricks[i].durability = FullDurability(bricks[i].type)

(***************************************************************************)
(* C7                                                                      *)
(***************************************************************************)
\* C7 as claimed: combo goes to 0 on ball loss and on stage start and in no
\* other step; every other step, quit and restart among them, leaves combo
\* unchanged or adds 1.
C7_ResetOnlyOnLossOrStageStart ==
    \A e \in Events :
        \A rnd \in DrawsOf(e) :
            LET g == Handle(Self, e, rnd)
                called == {g.calls[k] : k \in DOMAIN g.calls}
            IN  IF called \cap {"handleBallLost", "initStage"} # {}
                THEN g.combo = 0
                ELSE g.combo = combo \/ g.combo = combo + 1

\* C7 amended: combo goes to 0 on ball loss, on stage start and in the reset
\* of quit and restart; every other step leaves combo unchanged or adds 1.
C7_ResetOnLossStageStartOrReset ==
    \A e \in Events :
        \A rnd \in DrawsOf(e) :
            LET g == Handle(Self, e, rnd)
                called == {g.calls[k] : k \in DOMAIN g.calls}
            IN  IF called \cap {"handleBallLost", "initStage", "quit", "restart"} # {}
                THEN g.combo = 0
                ELSE g.combo = combo \/ g.combo = combo + 1

\* a cleared game with a combo standing, which Q takes to 0
C7_Witness ==
    /\ state = "clear"
    /\ combo > 0
    /\ \E rnd \in LaunchDraws : HandleKeyDown(Self, "KeyQ", rnd).combo = 0

(***************************************************************************)
(* C8                                                                      *)
(***************************************************************************)
\* the points of the c-th consecutive destruction, by brick type
ClaimedPoints(type, c) ==
    LET brickScore == IF type = "normal" THEN 10
                      ELSE IF type = "hard" THEN 25 ELSE 50
    IN  IF c >= 10 THEN 2 * brickScore
        ELSE IF c >= 5 THEN (3 * brickScore) \div 2
        ELSE brickScore

\* C8: the brick scan of a tick changes at most one brick; if it destroys
\* the brick, combo grows by 1 and score by floor(brickScore x m), m = 2
\* from the new combo 10 on, 1.5 from 5 on, else 1 (the 5th destruction in a
\* row of a 10-point brick adds 15); a hit that leaves the brick standing,
\* and a tick without a hit, leave score and combo as they were.
C8_ComboThenScore ==
    (Ticking /\ ~BallLostNow) =>
        LET g == CheckBrickCollisions(UpdateObjects(AtTick))
            touched == {i \in DOMAIN bricks : g.bricks[i] # bricks[i]}
        IN  /\ Cardinality(touched) <= 1
            /\ Len(g.bricks) = Len(bricks)
            /\ \A i \in touched :
                  IF g.bricks[i].destroyed
                  THEN /\ g.combo = combo + 1
                       /\ g.score = score + ClaimedPoints(bricks[i].type, combo + 1)
                       /\ (combo = 4 /\ bricks[i].type = "normal") =>
                              g.score = score + 15
                  ELSE /\ g.combo = combo
                       /\ g.score = score
                       /\ g.bricks[i].durability = bricks[i].durability - 1
            /\ touched = {} => (g.combo = combo /\ g.score = score)

\* the ninth destruction in a row is that of a 25-point brick: 37 points
C8_Witness ==
    /\ state = "playing"
    /\ combo = 8
    /\ ~BallLostNow
    /\ LET g == CheckBrickCollisions(UpdateObjects(Self))
       IN  /\ g.combo = 9
           /\ g.score = score + 37

(***************************************************************************)
(* C9                                                                      *)
(***************************************************************************)
\* C9: S in idle, gameover or clear opens the scoreboard and remembers the
\* state; in scores S and Escape lead back to exactly that state; neither
\* way touches score, lives, stage or combo; every other key-down and every
\* click in scores changes nothing but the key's own entry in keys.
C9_ScoreboardRoundTrip ==
    /\ state \in {"idle", "gameover", "clear"} =>
          \A rnd \in LaunchDraws :
              LET g == HandleKeyDown(Self, "KeyS", rnd)
              IN  /\ g.state = "scores"
                  /\ g.previousState = state
                  /\ SameCounters(g)
    /\ state = "scores" =>
          /\ previousState \in {"idle", "gameover", "clear"}
          /\ \A e \in Events :
                \A rnd \in DrawsOf(e) :
                    LET g == Handle(Self, e, rnd)
                    IN  /\ SameCounters(g)
                        /\ g.previousState = previousState
                        /\ IF IsKey(e, {"KeyS", "Escape"})
                           THEN g.state = previousState
                           ELSE g.state = "scores"
                        /\ (e.type \in {"keydown", "click"}
                            /\ ~IsKey(e, {"KeyS", "Escape"})) =>
                              [g EXCEPT !.keys = keys] = Self

\* back in gameover from the scoreboard
C9_Witness ==
    /\ state = "gameover"
    /\ previousState = "gameover"
    /\ lives = 0

(***************************************************************************)
(* C10                                                                     *)
(***************************************************************************)
\* C10: in paused, gameover and clear, quit() and restart() end in the same
\* game: state idle, score 0, lives the configured count, stage 1, combo 0,
\* paddle centred and still, ball unlaunched on the paddle with velocity 0.
C10_QuitEqualsRestart ==
    state \in {"paused", "gameover", "clear"} =>
        LET q == Quit(Self)
            r == Restart(Self)
        IN  /\ [q EXCEPT !.calls = <<>>] = [r EXCEPT !.calls = <<>>]
            /\ r.state = "idle"
            /\ r.score = 0
            /\ r.lives = config.lives
            /\ r.stage = 1
            /\ r.combo = 0
            /\ r.paddle = [x |-> (config.canvas.width - config.paddle.width) \div 2,
                           direction |-> 0]
            /\ r.ball = [x |-> config.canvas.width \div 2,
                         y |-> config.canvas.height - 50 - config.ball.radius - 1,
                         dx |-> 0, dy |-> 0, launched |-> FALSE]

\* a paused game with points, a life lost, a moved paddle and a flying ball
C10_Witness ==
    /\ state = "paused"
    /\ score > 0
    /\ lives < config.lives
    /\ paddle.x # (config.canvas.width - config.paddle.width) \div 2
    /\ ball.launched

(***************************************************************************)
(* C11                                                                     *)
(***************************************************************************)
\* C11: for a brick of any type, with k the number of hit() calls it has
\* taken since it was made, the brick is destroyed exactly when k equals the
\* type's durability (normal 1, hard 2, special 1); the next call on a
\* standing brick returns true, and destroys it, exactly when it is call
\* number durability, and otherwise returns false and leaves it standing.
C11_DestroyedOnLastHit ==
    \A i \in DOMAIN bricks :
        LET b == bricks[i]
            full == IF b.type = "hard" THEN 2 ELSE 1
            k == full - b.durability
        IN  /\ 0 <= k /\ k <= full
            /\ b.destroyed <=> (k = full)
            /\ ~b.destroyed =>
                  /\ BrickHit(b).destroyed <=> (k + 1 = full)
                  /\ BrickHit(b).brick.destroyed <=> (k + 1 = full)
                  /\ BrickHit(b).brick.durability = b.durability - 1

\* a two-hit brick after its first hit beside one after its second
C11_Witness ==
    \E i, j \in DOMAIN bricks :
        /\ bricks[i].type = "hard" /\ bricks[j].type = "hard"
        /\ bricks[i].durability = 1 /\ ~bricks[i].destroyed
        /\ BrickHit(bricks[i]).destroyed
        /\ bricks[j].durability = 0 /\ bricks[j].destroyed

\* C12: no brick has a durability below 0; the brick scan of a tick leaves
\* every destroyed brick as it was (hit() is not called on it); and whatever
\* event is handled, as long as no stage is started by it, a destroyed brick
\* stays destroyed, no durability grows and the number of bricks left does
\* not grow; the answer to a score fetch leaves the bricks alone.
C12_DestroyedStaysDestroyed ==
    /\ \A i \in DOMAIN bricks : bricks[i].durability >= 0
    /\ Ticking =>
          LET scanned == CheckBrickCollisions(UpdateObjects(AtTick))
          IN  /\ DOMAIN scanned.bricks = DOMAIN bricks
              /\ \A i \in DOMAIN bricks :
                    bricks[i].destroyed => scanned.bricks[i] = bricks[i]
    /\ \A e \in Events : \A rnd \in DrawsOf(e) :
          LET g == Handle(Self, e, rnd)
          IN  (\A n \in DOMAIN g.calls : g.calls[n] # "initStage") =>
                 /\ DOMAIN g.bricks = DOMAIN bricks
                 /\ \A i \in DOMAIN bricks :
                       /\ bricks[i].destroyed => g.bricks[i].destroyed
                       /\ g.bricks[i].durability <= bricks[i].durability
                 /\ GetRemainingCount(g.bricks) <= GetRemainingCount(bricks)
    /\ \A res \in Responses : ResolveFetch(Self, res).bricks = bricks

\* bricks are gone, others stand, and the coming tick takes one more without
\* ending the stage
C12_Witness ==
    /\ state = "playing"
    /\ \E i, j \in DOMAIN bricks : bricks[i].destroyed /\ ~bricks[j].destroyed
    /\ LET g == Update(Self)
       IN  /\ GetRemainingCount(g.bricks) < GetRemainingCount(bricks)
           /\ GetRemainingCount(g.bricks) > 0

\* the standing bricks that the ball, moved by the coming tick, overlaps
Overlapped ==
    {i \in DOMAIN bricks :
        /\ ~bricks[i].destroyed
        /\ BallCheckBrickCollision(UpdateObjects(AtTick).ball,
                                   bricks[i].x, bricks[i].y,
                                   config.brick.width, config.brick.height).hit}

\* C13: in a tick the brick scan changes at most one brick: the first
\* standing brick, in generation order (row by row, each row from the
\* left), that the moved ball overlaps. Its
\* durability drops by one and the ball is deflected by that one test only;
\* every other brick, overlapped or not, is left as it was. A tick that
\* loses the ball changes no brick.
C13_FirstOverlappedBrickOnly ==
    Ticking =>
        LET moved   == UpdateObjects(AtTick)
            scanned == CheckBrickCollisions(moved)
            changed == {i \in DOMAIN bricks : scanned.bricks[i] # bricks[i]}
        IN  /\ DOMAIN scanned.bricks = DOMAIN bricks
            /\ Cardinality(changed) <= 1
            /\ Overlapped = {} => changed = {} /\ scanned.ball = moved.ball
            /\ Overlapped # {} =>
                  LET first == CHOOSE i \in Overlapped : \A j \in Overlapped : i <= j
                  IN  /\ changed = {first}
                      /\ scanned.bricks[first].durability = bricks[first].durability - 1
                      /\ scanned.ball =
                            BallCheckBrickCollision(moved.ball,
                                bricks[first].x, bricks[first].y,
                                config.brick.width, config.brick.height).ball
            /\ BallLostNow => Update(AtTick).bricks = bricks

\* the moved ball overlaps two standing bricks at once, and the one that comes
\* first along the rows stands in the later column
C13_Witness ==
    /\ state = "playing"
    /\ ~BallLostNow
    /\ \E i, j \in Overlapped :
          /\ i < j
          /\ (i - 1) % config.brick.cols > (j - 1) % config.brick.cols

\* C14: in idle, paused, gameover, clear and scores, a pending frame callback
\* that fires leaves paddle, ball, bricks, score, lives, stage and combo as
\* they were, and the state too, and requests no frame: what is pending
\* afterwards is what was pending besides the callback itself.
C14_NoUpdateUnlessPlaying ==
    state # "playing" =>
        \A id \in frames :
            LET g == GameLoop([Self EXCEPT !.frames = @ \ {id}])
            IN  /\ g.paddle = paddle
                /\ g.ball = ball
                /\ g.bricks = bricks
                /\ SameCounters(g)
                /\ g.state = state
                /\ g.frames = frames \ {id}
                /\ g.animationFrameId = animationFrameId

\* the game is over, the ball stopped in flight, and a frame callback is
\* still to come
C14_Witness ==
    /\ state = "gameover"
    /\ frames # {}
    /\ ball.launched

\* C16: when the tick of a frame callback, or of resume(), takes the state
\* to gameover or to clear, no frame callback is pending once gameLoop() has
\* returned.
C16_NoFrameAfterGameEnd ==
    /\ state = "playing" =>
          \A id \in frames :
              LET g == GameLoop([Self EXCEPT !.frames = @ \ {id}])
              IN  g.state \in {"gameover", "clear"} => g.frames = {}
    /\ state = "paused" =>
          LET g == Resume(Self)
          IN  g.state \in {"gameover", "clear"} => g.frames = {}

\* C15: while the state is paused no frame callback is pending; pause()
\* leaves score, lives, stage, combo, the bricks, the ball and the paddle as
\* they were; resume() resets none of them: after it they are what the one
\* tick it runs makes of them.
C15_NoFrameWhilePaused ==
    /\ state = "paused" => frames = {}
    /\ state = "playing" =>
          LET g == Pause(Self)
          IN  /\ SameCounters(g)
              /\ g.bricks = bricks /\ g.ball = ball /\ g.paddle = paddle
    /\ state = "paused" =>
          LET g == Resume(Self)
              t == Update(AtTick)
          IN  /\ g.score = t.score /\ g.lives = t.lives
              /\ g.stage = t.stage /\ g.combo = t.combo
              /\ g.bricks = t.bricks /\ g.ball = t.ball /\ g.paddle = t.paddle

\* C17: with any number of fetches in flight, whatever the answer (the
\* list, a non-OK status, an exception) and whenever it arrives, the game
\* after the answer differs from the game before it in the cached
\* leaderboard and the count of fetches in flight alone; and no handler
\* waits for an answer: every event is handled as it would be with no fetch
\* in flight.
C17_AnswerTouchesCacheOnly ==
    /\ fetches > 0 =>
          \A res \in Responses :
              [ResolveFetch(Self, res) EXCEPT !.highScores = highScores,
                                              !.fetches = fetches] = Self
    /\ \A e \in Events : \A rnd \in DrawsOf(e) :
          LET g == Handle(Self, e, rnd)
              h == Handle([Self EXCEPT !.fetches = 0], e, rnd)
          IN  [g EXCEPT !.fetches = 0] = [h EXCEPT !.fetches = 0]

\* two answers are awaited while a ball is in flight
C17_Witness ==
    /\ fetches >= 2
    /\ state = "playing"
    /\ ball.launched

\* C18: when the answer to a fetch is the route's 200 answer, the cached
\* leaderboard becomes the list the service returned, in its order; when the
\* fetch ends with an exception the cached leaderboard becomes empty.
C18_CacheIsTheListReturned ==
    fetches > 0 =>
        \A res \in Responses :
            /\ res.kind = "ok" =>
                  ResolveFetch(Self, res).highScores = res.data.items
            /\ res.kind = "throws" =>
                  ResolveFetch(Self, res).highScores = <<>>

\* C19: at most one score fetch is in flight at any time.
C19_OneFetchInFlight == fetches <= 1

\* how often name occurs in a sequence
Count(seq, name) == Cardinality({k \in DOMAIN seq : seq[k] = name})

\* how often the state goes from one of the states in from to the state to
\* while the handler that ends in game g runs
Entries(g, from, to) ==
    LET path == <<state>> \o g.changes
    IN  Cardinality({k \in 1..(Len(path) - 1) : path[k] \in from /\ path[k + 1] = to})

\* the fetches the handler of an event owes to game ends, quits and restarts
GameEndFetches(g) ==
    Entries(g, {"playing"}, "gameover") + Entries(g, {"playing"}, "clear")
    + Count(g.calls, "quit") + Count(g.calls, "restart")

\* C20 as claimed: the handler of every event requests one fetch for each
\* step of the state from playing to gameover or clear and each quit() and
\* restart() it makes, and no other.
C20_FetchOnlyAtGameEnds ==
    \A e \in Events : \A rnd \in DrawsOf(e) :
        LET g == Handle(Self, e, rnd)
        IN  /\ Count(g.calls, "loadHighScores") = GameEndFetches(g)
            /\ g.fetches = fetches + GameEndFetches(g)

\* C20 amended: the handler of every event requests one fetch for each
\* step of the state from playing to gameover or clear, each quit() and
\* restart() it makes, and each opening of the scoreboard, and no other;
\* refreshHighScores() requests one; the answer to a fetch requests none.
C20_FetchAtGameEndsAndBoard ==
    /\ \A e \in Events : \A rnd \in DrawsOf(e) :
          LET g == Handle(Self, e, rnd)
              owed == GameEndFetches(g)
                      + Entries(g, {"idle", "gameover", "clear"}, "scores")
          IN  /\ Count(g.calls, "loadHighScores") = owed
              /\ g.fetches = fetches + owed
    /\ LET g == RefreshHighScores(Self)
       IN  /\ Count(g.calls, "loadHighScores") = 1
           /\ g.fetches = fetches + 1
    /\ fetches > 0 =>
          \A res \in Responses : ResolveFetch(Self, res).fetches = fetches - 1

\* the fetch of the game's end is still awaited when S opens the scoreboard
\* and asks again
C20_Witness ==
    /\ state = "scores"
    /\ previousState = "gameover"
    /\ fetches = 2

\* the place of a waiting ball over paddle p: centred, one pixel clear of
\* the paddle's top, at rest
Waiting(b, p) ==
    /\ b.x = p.x + config.paddle.width \div 2
    /\ b.y = config.canvas.height - 50 - config.ball.radius - 1
    /\ b.dx = 0 /\ b.dy = 0

\* C21: when a tick ends with the ball unlaunched, the ball lies centred on
\* the paddle as the tick left it, one pixel above its top, with velocity
\* (0, 0); the same holds after every handler that ran a tick or a reset
\* (stage start, quit, restart), whatever keys and pointer moves came
\* before; and an unlaunched ball has velocity (0, 0) in every state.
C21_WaitingBallFollowsPaddle ==
    /\ ~ball.launched => ball.dx = 0 /\ ball.dy = 0
    /\ Ticking =>
          LET g == Update(AtTick)
          IN  ~g.ball.launched => Waiting(g.ball, g.paddle)
    /\ \A e \in Events : \A rnd \in DrawsOf(e) :
          LET g == Handle(Self, e, rnd)
          IN  (/\ ~g.ball.launched
               /\ \E n \in DOMAIN g.calls :
                     g.calls[n] \in {"update", "initStage", "quit", "restart"})
              => Waiting(g.ball, g.paddle)

\* the pointer has taken the paddle away from under the waiting ball, and
\* the coming tick brings the ball back over it
C21_Witness ==
    /\ state = "playing"
    /\ ~ball.launched
    /\ ball.x # paddle.x + config.paddle.width \div 2
    /\ paddle # PaddleReset
    /\ Waiting(Update(Self).ball, Update(Self).paddle)

\* the paddle test of Ball.update finds ball b, as the walls left it, on
\* paddle p
OnPaddle(b, p) ==
    /\ b.dy > 0
    /\ b.y + config.ball.radius >= config.canvas.height - 50
    /\ b.y + config.ball.radius <= config.canvas.height - 50 + config.paddle.height
    /\ b.x >= p.x
    /\ b.x <= p.x + config.paddle.width

\* C22: a launched ball's centre is never nearer than its radius to the
\* left, right or top wall (the states of a launched ball are those at the
\* end of a tick, brick push-out included, and the one after launch); and in
\* a tick in which the moved ball reaches a wall, the velocity component
\* towards that wall keeps its size and points away from the wall, and the
\* other component is as it was, unless the ball also lands on the paddle
\* in that tick.
C22_InsideWallsAndMirrored ==
    /\ ball.launched =>
          /\ config.ball.radius <= ball.x
          /\ ball.x <= config.canvas.width - config.ball.radius
          /\ ball.y >= config.ball.radius
    /\ (Ticking /\ ball.launched) =>
          LET radius == config.ball.radius
              p == PaddleUpdate(paddle)
              u == BallUpdate(ball, p).ball
              x1 == ball.x + ball.dx
              y1 == ball.y + ball.dy
              left  == x1 - radius <= 0
              right == ~left /\ x1 + radius >= config.canvas.width
              top   == y1 - radius <= 0
              walled == [ball EXCEPT
                           !.x = IF left THEN radius
                                 ELSE IF right THEN config.canvas.width - radius
                                 ELSE x1,
                           !.y = IF top THEN radius ELSE y1,
                           !.dx = IF left THEN Abs(ball.dx)
                                  ELSE IF right THEN -Abs(ball.dx) ELSE ball.dx,
                           !.dy = IF top THEN Abs(ball.dy) ELSE ball.dy]
          IN  /\ Abs(walled.dx) = Abs(ball.dx) /\ Abs(walled.dy) = Abs(ball.dy)
              /\ ~OnPaddle(walled, p) => u = walled
              /\ (left /\ ~OnPaddle(walled, p)) => u.dx >= 0 /\ u.x = radius
              /\ (right /\ ~OnPaddle(walled, p)) =>
                    u.dx <= 0 /\ u.x = config.canvas.width - radius
              /\ (top /\ ~OnPaddle(walled, p)) => u.dy >= 0 /\ u.y = radius

\* the brick scan of the coming tick pushes the ball sideways, and the push
\* ends with the ball against a side wall
C22_Witness ==
    /\ state = "playing"
    /\ ball.launched
    /\ ~BallLostNow
    /\ LET moved   == UpdateObjects(Self)
           scanned == CheckBrickCollisions(moved)
       IN  /\ scanned.ball.x # moved.ball.x
           /\ scanned.ball.x \in {config.ball.radius,
                                  config.canvas.width - config.ball.radius}

\* the launched ball after the move and the wall rules of the coming tick,
\* before any paddle test
Walled ==
    LET radius == config.ball.radius
        x1 == ball.x + ball.dx
        y1 == ball.y + ball.dy
        left  == x1 - radius <= 0
        right == ~left /\ x1 + radius >= config.canvas.width
        top   == y1 - radius <= 0
    IN  [ball EXCEPT
            !.x = IF left THEN radius
                  ELSE IF right THEN config.canvas.width - radius ELSE x1,
            !.y = IF top THEN radius ELSE y1,
            !.dx = IF left THEN Abs(ball.dx)
                   ELSE IF right THEN -Abs(ball.dx) ELSE ball.dx,
            !.dy = IF top THEN Abs(ball.dy) ELSE ball.dy]

\* C23 as claimed: update() of a launched ball reports lost exactly when,
\* after the move, the ball's bottom edge (y + radius) is past the canvas
\* height, and then the ball is as the move and the walls left it (no paddle
\* bounce).
C23_LostWhenBottomEdgePast ==
    (Ticking /\ ball.launched) =>
        LET u == BallUpdate(ball, PaddleUpdate(paddle))
        IN  /\ u.result = "lost" <=>
                  Walled.y + config.ball.radius > config.canvas.height
            /\ u.result = "lost" => u.ball = Walled

\* C23 amended: update() of a launched ball reports lost exactly when, after
\* the move, the ball's top edge (y - radius) is past the canvas height, the
\* whole ball being below the canvas, and then the ball is as the move and
\* the walls left it (no paddle bounce).
C23_LostWhenTopEdgePast ==
    (Ticking /\ ball.launched) =>
        LET u == BallUpdate(ball, PaddleUpdate(paddle))
        IN  /\ u.result = "lost" <=>
                  Walled.y - config.ball.radius > config.canvas.height
            /\ u.result = "lost" => u.ball = Walled

\* the ball's bottom edge went past the canvas in the last tick and the ball
\* is still in play; the coming tick reports it lost
C23_Witness ==
    /\ state = "playing"
    /\ ball.launched
    /\ ball.y + config.ball.radius > config.canvas.height
    /\ ball.y - config.ball.radius <= config.canvas.height
    /\ BallLostNow

\* the stages createBricks is checked for
StagesChecked == 5

\* the type claimed for a brick of row r on stage stg
ClaimedType(stg, r) ==
    IF stg = 1 THEN "normal"
    ELSE IF stg = 2 THEN (IF r \in {0, 1} THEN "hard" ELSE "normal")
    ELSE IF r = 0 THEN "special"
    ELSE IF r = 1 THEN "hard"
    ELSE "normal"

\* C24: for every stage, createBricks(stage) makes rows x cols bricks, row
\* by row, none destroyed, each with the full durability of its type, and
\* the type of a brick is the one its stage and row call for: stage 1
\* normal; stage 2 hard in rows 0 and 1, else normal; stage 3 and above
\* special in row 0, hard in row 1, else normal.
C24_GridOfStage ==
    \A stg \in 1..StagesChecked :
        LET made == CreateBricks(stg)
        IN  /\ Len(made) = config.brick.rows * config.brick.cols
            /\ \A i \in DOMAIN made :
                  /\ ~made[i].destroyed
                  /\ made[i].durability = FullDurability(made[i].type)
                  /\ made[i].type = ClaimedType(stg, (i - 1) \div config.brick.cols)

\* the fresh grid of stage 3: a special row, a hard row, a normal row
C24_Witness ==
    /\ stage = 3
    /\ bricks = CreateBricks(3)
    /\ config.brick.rows >= 3 /\ config.brick.cols >= 2
    /\ {bricks[i].type : i \in DOMAIN bricks} = {"special", "hard", "normal"}

\* what C25 says of every step but resume: the score is a natural number;
\* no handler lowers it, except that one which calls quit() or restart()
\* ends with 0; a tick that loses the ball, the stage advance after the
\* brick scan, pause() and the scoreboard keys leave it as it was
ScoreSteps ==
    /\ score \in Nat
    /\ \A e \in Events : \A rnd \in DrawsOf(e) :
          LET g == Handle(Self, e, rnd)
          IN  /\ g.score \in Nat
              /\ IF \E n \in DOMAIN g.calls : g.calls[n] \in {"quit", "restart"}
                 THEN g.score = 0
                 ELSE g.score >= score
              /\ (IsKey(e, {"KeyS"}) \/ state = "scores") => g.score = score
    /\ (Ticking /\ BallLostNow) => Update(AtTick).score = score
    /\ (Ticking /\ ~BallLostNow) =>
          Update(AtTick).score = CheckBrickCollisions(UpdateObjects(AtTick)).score
    /\ state = "playing" => Pause(Self).score = score

\* C25 as claimed: the score is a natural number and goes down only where
\* quit or restart sets it to 0; ball loss, stage advance, pause, the
\* scoreboard toggle, and resume(), leave it as it was.
C25_ScoreKeptByResume ==
    /\ ScoreSteps
    /\ state = "paused" => Resume(Self).score = score

\* C25 amended: the same, but resume() leaves the score as the one tick it
\* runs at once makes it: unchanged, or raised by the points of a brick that
\* the tick destroys.
C25_ScoreNeverLowered ==
    /\ ScoreSteps
    /\ state = "paused" =>
          /\ Resume(Self).score = Update(AtTick).score
          /\ Resume(Self).score >= score

\* a paused game with points on the board: resume() destroys a brick in the
\* tick it runs
C25_Witness ==
    /\ state = "paused"
    /\ score > 0
    /\ Resume(Self).score > score

\* the keys with an action in state s, for a ball launched or not
ActionKeys(s, launched) ==
    CASE s = "idle"     -> {"Space", "KeyS"}
      [] s = "playing"  -> {"Escape", "KeyP"} \cup (IF launched THEN {} ELSE {"Space"})
      [] s = "paused"   -> {"Escape", "KeyP", "KeyQ"}
      [] s = "gameover" -> {"Escape", "KeyQ", "KeyR", "KeyS"}
      [] s = "clear"    -> {"Escape", "KeyQ", "KeyR", "KeyS"}
      [] s = "scores"   -> {"Escape", "KeyS"}

\* C26: a key-down of a key that is no action key at all (KeyX), or of an
\* action key that has no action in the current state (R or Q while
\* playing, S while playing or paused, Space while paused, gameover or
\* clear, and so on), leaves state, score, lives, stage, combo, ball and
\* bricks as they were, and requests neither a frame nor a fetch; a mouse
\* move outside playing leaves the paddle as it was.
C26_UnmappedInputIgnored ==
    /\ \A code \in KeyCodes \ (MoveKeys \cup ActionKeys(state, ball.launched)) :
          \A rnd \in LaunchDraws :
              LET g == HandleKeyDown(Self, code, rnd)
              IN  /\ g.state = state
                  /\ SameCounters(g)
                  /\ g.ball = ball
                  /\ g.bricks = bricks
                  /\ g.frames = frames /\ g.fetches = fetches
    /\ state # "playing" =>
          \A mouseX \in MouseXs : HandleMouseMove(Self, mouseX).paddle = paddle

\* a game in full swing: R, Q, S and X mean nothing here
C26_Witness ==
    /\ state = "playing"
    /\ ball.launched
    /\ score > 0
    /\ lives < config.lives
    /\ {"KeyR", "KeyQ", "KeyS", "KeyX", "Space"} \subseteq
          KeyCodes \ (MoveKeys \cup ActionKeys(state, ball.launched))

\* C27: after any number of addScore calls made one after the other on an
\* empty store, the list getScores returns is in descending order of score,
\* has as many entries as there were calls but no more than 10, holds only
\* entries that were submitted, and every submitted entry it lacks has a
\* score no higher than any score it holds.
C27_TopTenSorted ==
    LET stored == GetScores
        kept   == {stored[k] : k \in DOMAIN stored}
        all    == {adds[k] : k \in DOMAIN adds}
    IN  /\ \A k \in 1..(Len(stored) - 1) : stored[k].score >= stored[k + 1].score
        /\ Len(stored) = Min(Len(adds), 10)
        /\ Cardinality(kept) = Len(stored)
        /\ kept \subseteq all
        /\ \A e \in all \ kept : \A f \in kept : f.score >= e.score

\* an eleventh score came in, higher than the lowest held, and took its
\* place
C27_Witness ==
    /\ Len(adds) = 11
    /\ Len(GetScores) = 10
    /\ \E k \in DOMAIN GetScores : GetScores[k] = adds[11]
    /\ \E k \in 1..10 : adds[k].score < adds[11].score
    /\ GetScores[1].score > GetScores[10].score

\* C28: after an addScore call made on its own has completed, the entry it
\* returned (the new entry, with its name, score and date) is one of the
\* entries of the list getScores returns.
C28_ReturnedEntryStored ==
    adds # <<>> =>
        \E k \in DOMAIN GetScores : GetScores[k] = adds[Len(adds)]

\* one thousandth of a speed: the accuracy of the arithmetic of the velocity
Slack(s) == s \div FP

\* two speeds are equal to within one thousandth
Near(a, b) == Abs(a - b) <= Slack(b)

\* the speed the claim gives a paddle bounce: min(1.02 x speed, maxSpeed)
ClaimedSpeed(s) == Min(Round(s * 102, 100), config.ball.maxSpeed * FP)

\* C29: once launched, the speed of the ball is never zero, never below the
\* configured initial speed and never above the configured maximum speed (to
\* within one thousandth, the accuracy of the arithmetic); a reflection by a
\* wall or by a brick leaves the speed exactly as it was, and a bounce on the
\* paddle makes it min(1.02 x speed, maxSpeed).
C29_SpeedBoundedAndKept ==
    velocity.launched =>
        LET speed == SpeedOf(velocity)
        IN  /\ speed > 0
            /\ speed >= config.ball.initialSpeed * FP
                            - Slack(config.ball.initialSpeed * FP)
            /\ speed <= config.ball.maxSpeed * FP
                            + Slack(config.ball.maxSpeed * FP)
            /\ SpeedOf(VelocityLeftWall(velocity)) = speed
            /\ SpeedOf(VelocityRightWall(velocity)) = speed
            /\ SpeedOf(VelocityTopWall(velocity)) = speed
            /\ \A sideways \in BOOLEAN :
                  SpeedOf(VelocityBrick(velocity, sideways)) = speed
            /\ \A hitPosition \in HitPositions :
                  LET bounced == VelocityPaddle(velocity, hitPosition)
                  IN  IF velocity.dy > 0
                      THEN Near(SpeedOf(bounced), ClaimedSpeed(speed))
                      ELSE bounced = velocity

\* the ball has reached the maximum speed, comes down on the paddle again and
\* leaves it no faster; before, at less than the maximum, a bounce made it
\* faster
C29_Witness ==
    /\ velocity.launched
    /\ velocity.dy > 0
    /\ ClaimedSpeed(SpeedOf(velocity)) = config.ball.maxSpeed * FP
    /\ Near(SpeedOf(velocity), config.ball.maxSpeed * FP)
    /\ \A hitPosition \in HitPositions :
          Near(SpeedOf(VelocityPaddle(velocity, hitPosition)),
               config.ball.maxSpeed * FP)

\* C30: in a tick whose ball update reports the ball lost, checkBrickCollisions
\* is not entered and no stage is cleared or laid out: the bricks (each one's
\* durability, and so the remaining count), the score and the stage are after
\* the tick as they were before it; in any tick, checkBrickCollisions is
\* entered only when the ball update reported the ball alive.
C30_LostTickScansNoBrick ==
    Ticking =>
        LET u == BallUpdate(ball, PaddleUpdate(paddle))
            g == Update(AtTick)
            called == {g.calls[k] : k \in DOMAIN g.calls}
        IN  /\ u.result = "lost" =>
                  /\ called \cap {"checkBrickCollisions", "handleStageClear",
                                  "initStage"} = {}
                  /\ g.bricks = bricks
                  /\ GetRemainingCount(g.bricks) = GetRemainingCount(bricks)
                  /\ g.score = score
                  /\ g.stage = stage
            /\ "checkBrickCollisions" \in called => u.result = "playing"

\* the ball goes out below the canvas in the coming tick, after bricks have
\* been destroyed and points scored
C30_Witness ==
    /\ state = "playing"
    /\ ball.launched
    /\ BallUpdate(ball, PaddleUpdate(paddle)).result = "lost"
    /\ score > 0
    /\ GetRemainingCount(bricks) < Len(bricks)
    /\ GetRemainingCount(bricks) > 0

\* C31: an event leaves an unlaunched ball launched only if it is a Space
\* key-down or a click received in state playing (and then the ball has the
\* velocity launch() gives it); the Space or click that starts the game from
\* idle leaves the ball unlaunched; launch() on a launched ball returns it
\* as it was; in idle, paused, gameover, clear and scores no event launches
\* the ball.
C31_LaunchOnlyWhilePlaying ==
    /\ \A e \in Events : \A rnd \in DrawsOf(e) :
          LET g == Handle(Self, e, rnd)
          IN  /\ (~ball.launched /\ g.ball.launched) =>
                    /\ IsKey(e, {"Space"}) \/ e.type = "click"
                    /\ state = "playing"
                    /\ g.ball = BallLaunch(ball, rnd)
              /\ (state = "idle" /\ (IsKey(e, {"Space"}) \/ e.type = "click")) =>
                    g.state = "playing" /\ ~g.ball.launched
              /\ (state # "playing" /\ ~ball.launched) => ~g.ball.launched
    /\ ball.launched => \A rnd \in LaunchDraws : BallLaunch(ball, rnd) = ball

\* the ball waits on the paddle in state playing: the coming Space or click
\* launches it
C31_Witness ==
    /\ state = "playing"
    /\ ~ball.launched
    /\ \E rnd \in LaunchDraws :
          /\ HandleClick(Self, rnd).ball.launched
          /\ HandleKeyDown(Self, "Space", rnd).ball.launched
          /\ HandleKeyDown(Self, "Space", rnd).ball.dy < 0

\* the launched ball after the move of the coming tick, before the walls
Moved == [ball EXCEPT !.x = ball.x + ball.dx, !.y = ball.y + ball.dy]

\* the angle the claim gives the bounce at hit position hit (in thousandths):
\* (hit - 0.5) x 0.7 x pi
ClaimedAngle(hit) == Round((hit - FP \div 2) * PI * 7, 10 * FP)

\* the bounce of C32 for a ball that the tick has brought to b, over the
\* paddle p as moved in that tick: the tick ends with dy < 0 and
\* y = paddleY - radius, x as in b, and with the velocity pointing at the angle
\* (hit - 0.5) x 0.7 x pi from straight up, hit = (b.x - paddleX) /
\* paddleWidth: the velocity is the rounding to whole pixels of the bounce
\* computed at full resolution, whose direction is off that angle by no more
\* than the rounding
Bounced(b, p) ==
    LET u == BallUpdate(ball, p)
        g == Update(AtTick)
        hit == Round((b.x - p.x) * FP, config.paddle.width)
        angle == ClaimedAngle(hit)
        fine == VelocityPaddle([dx |-> b.dx * FP, dy |-> b.dy * FP,
                                launched |-> TRUE], hit)
    IN  /\ u.result = "playing"
        /\ g.state = "playing"
        /\ g.ball.dy < 0
        /\ g.ball.y = PaddleGetY - config.ball.radius
        /\ g.ball.x = b.x
        /\ 0 <= hit /\ hit <= FP
        /\ fine.dy < 0
        /\ Abs(fine.dx * Cos(angle) + fine.dy * Sin(angle)) <= FP
        /\ g.ball.dx = Round(fine.dx, FP)
        /\ g.ball.dy = Round(fine.dy, FP)

\* C32 as claimed: in a tick of a launched ball that, after the move alone,
\* goes down (dy > 0) with y + radius within [paddleY, paddleY + paddleHeight]
\* and x within [paddleX, paddleX + paddleWidth], the ball is bounced as C32
\* says, with hit taken from the x of the move; a ball that goes up or level
\* is not bounced.
C32_BounceAfterMove ==
    (Ticking /\ ball.launched) =>
        /\ OnPaddle(Moved, PaddleUpdate(paddle)) =>
               Bounced(Moved, PaddleUpdate(paddle))
        /\ Walled.dy <= 0 =>
               BallUpdate(ball, PaddleUpdate(paddle)).ball = Walled

\* C32 amended: the same of the ball as the move and the side and top walls
\* of that tick have left it: x is the x after a side wall has put the ball
\* back at one radius from it, and hit is taken from that x.
C32_BounceAfterMoveAndWalls ==
    (Ticking /\ ball.launched) =>
        /\ OnPaddle(Walled, PaddleUpdate(paddle)) =>
               Bounced(Walled, PaddleUpdate(paddle))
        /\ Walled.dy <= 0 =>
               BallUpdate(ball, PaddleUpdate(paddle)).ball = Walled

\* the ball comes down on the left half of the paddle in the coming tick and
\* leaves it up and to the left
C32_Witness ==
    /\ state = "playing"
    /\ ball.launched
    /\ OnPaddle(Walled, PaddleUpdate(paddle))
    /\ Walled.x < PaddleGetCenterX(PaddleUpdate(paddle))
    /\ Update(Self).ball.dx < 0
    /\ Update(Self).ball.dy < 0

\* the point of brick i nearest to the centre of ball b, as an offset from it
Nearest(b, i) ==
    [ x |-> b.x - Max(bricks[i].x, Min(b.x, bricks[i].x + config.brick.width)),
      y |-> b.y - Max(bricks[i].y, Min(b.y, bricks[i].y + config.brick.height)) ]

\* C33: for the ball as the coming tick moves it and every brick of the grid,
\* checkBrickCollision returns true exactly when the distance from the ball's
\* centre to the nearest point of the brick is below the radius (compared as
\* squares).  When true, with overlapX = radius - |distanceX| and overlapY =
\* radius - |distanceY|: if overlapX < overlapY, dx is negated, dy kept, x
\* moved by overlapX and y kept; otherwise dy is negated, dx kept, y moved by
\* overlapY and x kept.  When false the ball is returned as it was.
C33_BrickTestAndDeflection ==
    Ticking =>
        LET b == UpdateObjects(AtTick).ball
            radius == config.ball.radius
        IN  \A i \in DOMAIN bricks :
               LET r == BallCheckBrickCollision(b, bricks[i].x, bricks[i].y,
                            config.brick.width, config.brick.height)
                   d == Nearest(b, i)
                   overlapX == radius - Abs(d.x)
                   overlapY == radius - Abs(d.y)
               IN  /\ r.hit <=> d.x * d.x + d.y * d.y < radius * radius
                   /\ ~r.hit => r.ball = b
                   /\ (r.hit /\ overlapX < overlapY) =>
                         /\ r.ball.dx = -b.dx /\ r.ball.dy = b.dy
                         /\ Abs(r.ball.x - b.x) = overlapX /\ r.ball.y = b.y
                         /\ r.ball.launched = b.launched
                   /\ (r.hit /\ overlapX >= overlapY) =>
                         /\ r.ball.dy = -b.dy /\ r.ball.dx = b.dx
                         /\ Abs(r.ball.y - b.y) = overlapY /\ r.ball.x = b.x
                         /\ r.ball.launched = b.launched

\* the ball as the coming tick moves it touches one brick with equal overlaps
\* (deflected up or down) and another from the side
C33_Witness ==
    /\ state = "playing"
    /\ ball.launched
    /\ \E i \in DOMAIN bricks :
          LET b == UpdateObjects(Self).ball
              d == Nearest(b, i)
          IN  /\ d.x * d.x + d.y * d.y < config.ball.radius * config.ball.radius
              /\ Abs(d.x) = Abs(d.y)
    /\ \E i \in DOMAIN bricks :
          LET b == UpdateObjects(Self).ball
              d == Nearest(b, i)
          IN  /\ d.x * d.x + d.y * d.y < config.ball.radius * config.ball.radius
              /\ Abs(d.x) > Abs(d.y)

\* the score the game holds at the moment the coming tick ends the game
ScoreAtGameEnd ==
    IF BallLostNow THEN score
    ELSE CheckBrickCollisions(UpdateObjects(AtTick)).score

\* C34: the handler of every event invokes the game-over callback once for
\* each step of the state from playing to gameover and from playing to clear
\* that it makes, and not otherwise, with the score the game holds at that
\* step; it leaves the scores of the callbacks already invoked as they were,
\* a quit or restart that sets the score to 0 included; and the POST that
\* follows the prompt carries the score its callback was given.
C34_CallbackOncePerGameEnd ==
    /\ \A e \in Events : \A rnd \in DrawsOf(e) :
          LET g == Handle(Self, e, rnd)
              ends == Entries(g, {"playing"}, "gameover")
                      + Entries(g, {"playing"}, "clear")
          IN  /\ Len(g.submits) = Len(submits) + ends
              /\ ends <= 1
              /\ SubSeq(g.submits, 1, Len(submits)) = submits
              /\ ends = 1 =>
                    g.submits[Len(g.submits)] =
                        [phase |-> "timer", score |-> ScoreAtGameEnd,
                         name |-> <<>>]
    /\ (submits # <<>> /\ submits[1].phase = "timer") =>
          \A answer \in PromptAnswers :
              LET g == PromptAnswered(Self, answer)
              IN  \/ g.submits = Tail(submits)
                  \/ /\ Tail(g.submits) = Tail(submits)
                     /\ g.submits[1].phase = "posted"
                     /\ g.submits[1].score = submits[1].score

\* a game has ended with points scored and its callback waits for the prompt;
\* the player has restarted, which has set the score to 0
C34_Witness ==
    /\ submits # <<>>
    /\ submits[1].phase = "timer"
    /\ submits[1].score > 0
    /\ score = 0
    /\ state \in {"idle", "playing"}

\* C35 as claimed: a POST whose name is missing or empty, or whose score is
\* not a number, answers 400 and leaves the score file as it was; a POST
\* during which the storage fails answers 500 and leaves the score file
\* either as it was or holding the whole new list, never something between;
\* a GET during which the storage fails answers 500.
C35_FailuresLeaveStoreWhole ==
    /\ \A body \in Bodies : \A readFails \in BOOLEAN :
          \A outcome \in WriteOutcomes :
             LET a == PostRoute(File, body, Now(adds), readFails, outcome)
                 invalid == Falsy(body.name) \/ body.score.kind # "number"
                 fails == readFails \/ torn \/ outcome # "written"
                 updated == [scores |-> AddScore(storage, body.name.str,
                                            body.score.num, Now(adds)),
                             torn |-> FALSE]
             IN  /\ invalid => a.status = 400 /\ a.file = File
                 /\ (~invalid /\ fails) =>
                       /\ a.status = 500
                       /\ a.file = File \/ a.file = updated
                 /\ (~invalid /\ ~fails) => a.status = 200 /\ a.file = updated
    /\ \A readFails \in BOOLEAN :
          GetRoute(File, readFails) = IF readFails \/ torn THEN 500 ELSE 200

\* C36 as claimed: at most one frame callback is pending in any state, and
\* the handler of no event leaves more than one pending.
C36_OneFramePending ==
    /\ Cardinality(frames) <= 1
    /\ \A e \in Events : \A rnd \in DrawsOf(e) :
          Cardinality(Handle(Self, e, rnd).frames) <= 1

\* the lives of game g agree with its state: none left exactly in gameover
\* and on the scoreboard opened from gameover; between 1 and the configured
\* number while playing or paused
LivesAgree(g) ==
    /\ g.lives = 0 <=>
          \/ g.state = "gameover"
          \/ g.state = "scores" /\ g.previousState = "gameover"
    /\ g.state \in {"playing", "paused"} =>
          1 <= g.lives /\ g.lives <= config.lives

\* C37: in every reachable state, and after the handler of every event that
\* can be delivered in it, lives = 0 if and only if the state is gameover, or
\* scores with previousState gameover; and in playing and paused
\* 1 <= lives <= the configured lives.
C37_LivesAgreeWithState ==
    /\ LivesAgree(Self)
    /\ \A e \in Events : \A rnd \in DrawsOf(e) : LivesAgree(Handle(Self, e, rnd))

\* the scoreboard is open over a lost game while a frame callback of that
\* game is still pending
C37_Witness ==
    /\ state = "scores"
    /\ previousState = "gameover"
    /\ lives = 0
    /\ frames # {}

\* C38: whenever the handler of an event takes the state from idle to
\* playing, it leaves score = 0, lives = the configured lives, stage = 1,
\* combo = 0, the bricks of stage 1 (rows x cols of them) all standing at
\* full durability, the paddle centred and the ball unlaunched on it.
C38_EveryGameStartsFresh ==
    state = "idle" =>
        \A e \in Events : \A rnd \in DrawsOf(e) :
            LET g == Handle(Self, e, rnd)
            IN  g.state = "playing" =>
                   /\ g.score = 0
                   /\ g.lives = config.lives
                   /\ g.stage = 1
                   /\ g.combo = 0
                   /\ g.bricks = CreateBricks(1)
                   /\ Len(g.bricks) = config.brick.rows * config.brick.cols
                   /\ \A i \in DOMAIN g.bricks :
                         /\ ~g.bricks[i].destroyed
                         /\ g.bricks[i].durability =
                               FullDurability(g.bricks[i].type)
                   /\ g.paddle.x = (config.canvas.width - config.paddle.width) \div 2
                   /\ ~g.ball.launched
                   /\ g.ball.x = PaddleGetCenterX(g.paddle)
                   /\ g.ball.dx = 0 /\ g.ball.dy = 0

\* idle after a game that reached stage 2 and was restarted: bricks of that
\* game are still down, and Space starts the next game
C38_Witness ==
    /\ state = "idle"
    /\ bricks # <<>>
    /\ bricks # CreateBricks(1)
    /\ HandleKeyDown(Self, "Space", CHOOSE rnd \in LaunchDraws : TRUE).state = "playing"

\* C39 as claimed: with the game as destroy() leaves it, no frame callback is
\* pending, and the handler of no keyboard or mouse event that still has a
\* listener changes the state, the paddle or the ball or schedules a frame.
C39_InertAfterDestroy ==
    LET d == Destroy(Self)
    IN  /\ d.frames = {}
        /\ \A e \in Events : \A rnd \in DrawsOf(e) :
              e.type \in {l.type : l \in ListenersAfterDestroy} =>
                  LET g == Handle(d, e, rnd)
                  IN  /\ g.state = d.state
                      /\ g.paddle = d.paddle
                      /\ g.ball = d.ball
                      /\ g.frames = d.frames

\* C40 as claimed: when every addScore call made has returned, each entry
\* that ranks among the 10 highest of the entries submitted is in the stored
\* list, calls that overlapped included.
C40_NoScoreLostByOverlap ==
    inflight = <<>> =>
        \A k \in DOMAIN adds :
            Cardinality({j \in DOMAIN adds : adds[j].score >= adds[k].score})
                <= TopCount
            => \E j \in DOMAIN GetScores : GetScores[j] = adds[k]

====
